----------------------------- MODULE Spec2Model -----------------------------
(***************************************************************************)
(* Context aggregation and caching layer of the NFL data service:          *)
(*   - LLMService.generate_response and its process-wide llm_cache         *)
(*     (App/services/LLm_service.py),                                      *)
(*   - NFLApiClient.batch_get / _safe_get / _get (App/services/            *)
(*     api_client.py) and NFLService.get_data / get_standings              *)
(*     (App/services/nfl_service.py),                                      *)
(*   - LLMService._summarize_context_data and the category reducers.       *)
(*                                                                         *)
(* Each component has its own specification over the shared variables; a   *)
(* specification leaves the other components' variables at their idle      *)
(* values.                                                                 *)
(***************************************************************************)
EXTENDS Integers, Sequences, FiniteSets, TLC

VARIABLES
    llm_cache,   \* LLm_service.llm_cache: cache_key -> (cached_time, cached_response)
    clock,       \* time.time(), in seconds
    call,        \* the generate_response coroutines, one per caller
    stored,      \* history: every (key, time, response) ever written to llm_cache
    ncalls,      \* history: generate_response calls started so far
    requests,    \* batch_get: the requests argument
    b_pc,        \* batch_get: where the coroutine stands
    tasks,       \* batch_get: the _safe_get tasks handed to asyncio.gather
    completed,   \* batch_get: task indices in the order the tasks settled
    b_ret,       \* batch_get: the returned list
    f_layer,     \* single fetch: which function is called
    f_endpoint,  \* single fetch: its endpoint argument
    f_upstream,  \* single fetch: what the upstream does with the request
    f_pc,        \* single fetch: "ready" or "done"
    f_result,    \* single fetch: what the call returned or raised
    s_in,        \* _summarize_context_data: the data argument
    s_pc,        \* _summarize_context_data: "ready" or "done"
    s_out,       \* _summarize_context_data: the returned value
    r_in,        \* _summarize_fantasy_rankings: the rankings_data argument
    r_pc,        \* _summarize_fantasy_rankings: "ready" or "done"
    r_out,       \* _summarize_fantasy_rankings: the returned value
    context_str  \* generate_response: the context message built from the summary

cacheVars == <<llm_cache, clock, call, stored, ncalls>>
batchVars == <<requests, b_pc, tasks, completed, b_ret>>
fetchVars == <<f_layer, f_endpoint, f_upstream, f_pc, f_result>>
summVars  == <<s_in, s_pc, s_out>>
rankVars  == <<r_in, r_pc, r_out>>
ctxVars   == <<context_str>>
vars == <<cacheVars, batchVars, fetchVars, summVars, rankVars, ctxVars>>
notCache == <<batchVars, fetchVars, summVars, rankVars, ctxVars>>
notBatch == <<cacheVars, fetchVars, summVars, rankVars, ctxVars>>
notFetch == <<cacheVars, batchVars, summVars, rankVars, ctxVars>>
notSumm  == <<cacheVars, batchVars, fetchVars, rankVars, ctxVars>>
notRank  == <<cacheVars, batchVars, fetchVars, summVars, ctxVars>>

-----------------------------------------------------------------------------
(***************************************************************************)
(* Python values.  A value is a record tagged by its type; a dict keeps    *)
(* its (key, value) pairs in insertion order, as Python's dict does.  A    *)
(* raised exception is a value of its own, so that an operator can return  *)
(* "what the call returned or raised".                                     *)
(***************************************************************************)
PyNone == [t |-> "none"]
PyStr(s) == [t |-> "str", s |-> s]
\* A str built at run time (an f-string, str(e)): its text as a sequence of tokens.
PyText(tokens) == [t |-> "str", text |-> tokens]
PyInt(n) == [t |-> "int", n |-> n]
PyList(q) == [t |-> "list", items |-> q]
PyDict(q) == [t |-> "dict", kv |-> q]
Raised(type, msg) == [t |-> "exc", type |-> type, msg |-> msg]

EmptyDict == PyDict(<<>>)
EmptyList == PyList(<<>>)
EmptyStr  == PyStr("")

IsNone(v) == v.t = "none"
IsStr(v)  == v.t = "str"
IsInt(v)  == v.t = "int"
IsList(v) == v.t = "list"
IsDict(v) == v.t = "dict"
IsExc(v)  == v.t = "exc"

\* bool(v): None, "", 0, [] and {} are false.
Truthy(v) ==
    CASE IsNone(v) -> FALSE
      [] IsStr(v)  -> IF "s" \in DOMAIN v THEN v.s # "" ELSE v.text # <<>>
      [] IsInt(v)  -> v.n # 0
      [] IsList(v) -> Len(v.items) > 0
      [] IsDict(v) -> Len(v.kv) > 0
      [] OTHER     -> TRUE

\* key in d, for a dict d.
Has(d, k) == \E i \in 1..Len(d.kv) : d.kv[i][1] = k

\* d[key], for a dict d that has the key.
Item(d, k) == d.kv[CHOOSE i \in 1..Len(d.kv) : d.kv[i][1] = k][2]

\* d.get(key, default), for a dict d.
Get(d, k, default) == IF Has(d, k) THEN Item(d, k) ELSE default

\* list(d.keys()), in insertion order.
Keys(d) == [i \in 1..Len(d.kv) |-> d.kv[i][1]]

\* d[key] = value: replaces the value in place, or appends a new pair.
SetItem(d, k, v) ==
    IF Has(d, k)
    THEN PyDict([i \in 1..Len(d.kv) |-> IF d.kv[i][1] = k THEN <<k, v>> ELSE d.kv[i]])
    ELSE PyDict(Append(d.kv, <<k, v>>))

\* seq[:n]
Take(q, n) == SubSeq(q, 1, IF Len(q) < n THEN Len(q) ELSE n)

Min(a, b) == IF a < b THEN a ELSE b

-----------------------------------------------------------------------------
(***************************************************************************)
(* Text.  A Python str that the model has to take apart or put together    *)
(* (the cache key's input, the returned answers) is a sequence of tokens;  *)
(* concatenation is \o.                                                    *)
(***************************************************************************)
RECURSIVE Repr(_)
RECURSIVE ReprSeq(_, _)
\* repr(v): the text of a value inside a container; a str is quoted.
Repr(v) ==
    CASE IsNone(v) -> <<"None">>
      [] IsStr(v)  -> <<"'">> \o (IF "s" \in DOMAIN v THEN <<v.s>> ELSE v.text) \o <<"'">>
      [] IsInt(v)  -> <<ToString(v.n)>>
      [] IsList(v) -> <<"[">> \o ReprSeq(v.items, FALSE) \o <<"]">>
      [] IsDict(v) -> <<"{">> \o ReprSeq(v.kv, TRUE) \o <<"}">>
\* The elements of a list, or the key: value pairs of a dict, joined by ", ".
ReprSeq(q, pairs) ==
    IF q = <<>> THEN <<>>
    ELSE LET one == IF pairs
                    THEN <<"'", Head(q)[1], "'", ": ">> \o Repr(Head(q)[2])
                    ELSE Repr(Head(q))
         IN  one \o (IF Len(q) > 1 THEN <<", ">> ELSE <<>>) \o ReprSeq(Tail(q), pairs)

\* str(v): a str is itself, anything else is its repr.
StrOf(v) ==
    IF IsStr(v) THEN (IF "s" \in DOMAIN v THEN <<v.s>> ELSE v.text) ELSE Repr(v)

\* hashlib.sha256(text.encode()).hexdigest(), taken as collision free: the digest
\* stands for the text it was computed from.
sha256(text) == <<"sha256">> \o text

-----------------------------------------------------------------------------
(***************************************************************************)
(* LLMService.generate_response and llm_cache.                             *)
(***************************************************************************)
LLM_CACHE_TTL == 600

\* Bounds of the cache model.
MaxCalls == 3      \* calls started in one run
MaxTime  == 600   \* the clock stops here

\* Two generate_response coroutines may overlap.
Callers == {"c1", "c2"}
\* The instants at which the clock is observed: 0, 599, 600, 1199, 1200, ..., so
\* that two observations can lie just under, exactly and just over one TTL apart.
TickStep(now) ==
    IF now % LLM_CACHE_TTL = LLM_CACHE_TTL - 1 THEN 1 ELSE LLM_CACHE_TTL - 1

Queries == {<<"a">>, <<"b">>}
CacheContexts == {PyNone, PyDict(<<<<"query_type", PyStr("t")>>>>)}
\* The (query, context_data) arguments the callers use.
CacheInputs ==
    {<<q, c>> \in Queries \X CacheContexts : (q = <<"a">>) = (c = PyNone)}
Responses == {<<"r1">>, <<"r2">>}

NoEntry == <<>>
RATE_LIMIT_TEXT == <<"Rate limit exceeded. Please try again later.">>
SORRY_PREFIX == "Sorry, I couldn't generate a response: "

\* What the POST to the chat-completions endpoint can end in.
GenOutcomes ==
    [kind : {"ok"}, text : Responses]
    \cup {[kind |-> "status", code |-> 429], [kind |-> "status", code |-> 500],
          [kind |-> "timeout"], [kind |-> "malformed"]}

\* Mutant of cache_key: the query is left out of the key.
cache_key_context_only(query, context_data) == sha256(StrOf(context_data))

\* Line 31.
cache_key(query, context_data) == sha256(query \o StrOf(context_data))

CacheKeys == {cache_key(a[1], a[2]) : a \in CacheInputs}

IdleCall ==
    [pc |-> "idle", query |-> <<>>, context |-> PyNone, key |-> <<>>, now |-> 0,
     hit |-> FALSE, summarized |-> FALSE, genCalled |-> FALSE, ret |-> <<>>]

\* Mutant of cache_hit: the entry is still served when exactly one TTL old.
cache_hit_inclusive(cache, key, now) ==
    /\ cache[key] # NoEntry
    /\ now - cache[key][1] <= LLM_CACHE_TTL

\* Lines 34-36: the entry is served only while now - cached_time < LLM_CACHE_TTL.
cache_hit(cache, key, now) ==
    /\ cache[key] # NoEntry
    /\ now - cache[key][1] < LLM_CACHE_TTL

\* Lines 82-84: the context is summarized only when it is truthy.
summarizes(context_data) == Truthy(context_data)

\* Lines 125-137: the text generate_response returns for an outcome of the POST.
gen_result(o) ==
    CASE o.kind = "ok" -> o.text
      [] o.kind = "status" /\ o.code = 429 -> RATE_LIMIT_TEXT
      [] o.kind = "status" /\ o.code # 429 -> <<SORRY_PREFIX, "status">>
      [] OTHER -> <<SORRY_PREFIX, o.kind>>

\* Mutant of cache_after: an entry already held for the key is kept.
cache_after_keep_first(cache, c, o) ==
    IF o.kind = "ok" /\ cache[c.key] = NoEntry
    THEN [cache EXCEPT ![c.key] = <<c.now, o.text>>] ELSE cache

\* Mutant of cache_after: the entry with the later timestamp is kept.
cache_after_newest_stamp(cache, c, o) ==
    IF o.kind = "ok" /\ (cache[c.key] = NoEntry \/ cache[c.key][1] <= c.now)
    THEN [cache EXCEPT ![c.key] = <<c.now, o.text>>] ELSE cache

\* Mutant of cache_after: a failed round trip removes the entry of the key.
cache_after_evict_on_failure(cache, c, o) ==
    IF o.kind = "ok" THEN [cache EXCEPT ![c.key] = <<c.now, o.text>>]
    ELSE [cache EXCEPT ![c.key] = NoEntry]

\* Mutant of cache_after: whatever the call returns is stored, error texts too.
cache_after_store_any(cache, c, o) == [cache EXCEPT ![c.key] = <<c.now, gen_result(o)>>]

\* Mutant of cache_after: the generated answer is returned but never stored.
cache_after_no_store(cache, c, o) == cache

\* Line 128: only a successful round trip writes the cache, with the time read at
\* the start of the call (line 32).
cache_after(cache, c, o) ==
    IF o.kind = "ok" THEN [cache EXCEPT ![c.key] = <<c.now, o.text>>] ELSE cache

\* Mutant of cache_after_lookup: a hit restarts the entry's time to live.
cache_after_lookup_sliding(cache, key, now) ==
    IF cache_hit(cache, key, now) THEN [cache EXCEPT ![key] = <<now, cache[key][2]>>]
    ELSE cache

\* Lines 34-37: the lookup reads llm_cache[cache_key] and assigns nothing, on a hit
\* and on a miss alike.
cache_after_lookup(cache, key, now) == cache

\* Lines 30-110: the call up to its first suspension.  A hit returns the cached
\* response at once; a miss builds the messages (summarizing the context) and
\* suspends in client.post.
Start(p, q, ctx) ==
    /\ call[p].pc = "idle"
    /\ ncalls < MaxCalls
    /\ LET key == cache_key(q, ctx)
           c0  == [IdleCall EXCEPT !.query = q, !.context = ctx, !.key = key,
                                   !.now = clock]
       IN  call' = [call EXCEPT ![p] =
                IF cache_hit(llm_cache, key, clock)
                THEN [c0 EXCEPT !.pc = "done", !.hit = TRUE, !.ret = llm_cache[key][2]]
                ELSE [c0 EXCEPT !.pc = "awaiting", !.summarized = summarizes(ctx),
                                !.genCalled = TRUE]]
    /\ llm_cache' = cache_after_lookup(llm_cache, cache_key(q, ctx), clock)
    /\ ncalls' = ncalls + 1
    /\ UNCHANGED <<clock, stored>>
    /\ UNCHANGED notCache

\* Lines 111-137: the POST settles and the call returns.
Finish(p, o) ==
    /\ call[p].pc = "awaiting"
    /\ llm_cache' = cache_after(llm_cache, call[p], o)
    /\ stored' = IF o.kind = "ok"
                 THEN stored \cup {<<call[p].key, call[p].now, o.text>>}
                 ELSE stored
    /\ call' = [call EXCEPT ![p].pc = "done", ![p].ret = gen_result(o)]
    /\ UNCHANGED <<clock, ncalls>>
    /\ UNCHANGED notCache

\* The caller takes the returned text; the coroutine is gone.
Return(p) ==
    /\ call[p].pc = "done"
    /\ call' = [call EXCEPT ![p] = IdleCall]
    /\ UNCHANGED <<llm_cache, clock, stored, ncalls>>
    /\ UNCHANGED notCache

\* Time passes.
Tick ==
    /\ clock + TickStep(clock) <= MaxTime
    /\ clock' = clock + TickStep(clock)
    /\ UNCHANGED <<llm_cache, call, stored, ncalls>>
    /\ UNCHANGED notCache

CacheInit ==
    /\ llm_cache = [k \in CacheKeys |-> NoEntry]
    /\ clock = 0
    /\ call = [p \in Callers |-> IdleCall]
    /\ stored = {}
    /\ ncalls = 0

CacheNext ==
    \/ \E p \in Callers, a \in CacheInputs : Start(p, a[1], a[2])
    \/ \E p \in Callers, o \in GenOutcomes : Finish(p, o)
    \/ \E p \in Callers : Return(p)
    \/ Tick

-----------------------------------------------------------------------------
(***************************************************************************)
(* Claims about generate_response and llm_cache (specification Spec).      *)
(***************************************************************************)
\* The step in which caller p enters generate_response.
Starts(p) == call[p].pc = "idle" /\ call'[p].pc # "idle"
\* The step in which caller p's POST settles.
Finishes(p) == call[p].pc = "awaiting" /\ call'[p].pc = "done"

\* C1 as stated: once some call has stored response r for a key with entry time t,
\* every later call for that key that starts at now returns exactly r from the cache
\* if now - t < 600, and goes to the generator if now - t >= 600.
C1_AnyStoredEntryServed ==
    [][\A p \in Callers : Starts(p) =>
          \A e \in stored : e[1] = call'[p].key =>
              IF clock - e[2] < LLM_CACHE_TTL
              THEN call'[p].pc = "done" /\ call'[p].ret = e[3]
              ELSE call'[p].pc = "awaiting" /\ call'[p].genCalled]_vars

\* C1 (amended): a call that starts at now and finds entry (t, r) held for its key
\* returns exactly r without calling the generator if now - t < 600, and treats the
\* entry as absent and goes to the generator if now - t >= 600.  (An entry that an
\* overlapping call has overwritten since is not served: the last write wins.)
C1_HeldEntryServedWithinTTL ==
    [][\A p \in Callers : Starts(p) =>
          LET e == llm_cache[call'[p].key]
          IN  /\ call'[p].now = clock
              /\ e # NoEntry /\ clock - e[1] < LLM_CACHE_TTL =>
                    /\ call'[p].pc = "done"
                    /\ call'[p].ret = e[2]
                    /\ ~call'[p].genCalled
              /\ e # NoEntry /\ clock - e[1] >= LLM_CACHE_TTL =>
                    /\ call'[p].pc = "awaiting"
                    /\ call'[p].genCalled]_vars

\* C1 witness: one caller was served the entry 599 s after its entry time, and
\* another, starting 600 s after it, found it expired and is at the generator.
C1_Witness ==
    \E p, q \in Callers :
        /\ call[p].pc = "done" /\ call[p].hit
        /\ llm_cache[call[p].key] # NoEntry
        /\ call[p].now - llm_cache[call[p].key][1] = LLM_CACHE_TTL - 1
        /\ call[q].pc = "awaiting" /\ call[q].key = call[p].key
        /\ call[q].now - llm_cache[call[q].key][1] = LLM_CACHE_TTL

\* C2: on a hit (an unexpired entry for the key) the call returns the cached answer
\* at once, with no generator call and no summarization; on a miss the generator is
\* called, and when it succeeds its result is stored under the key.
C2_HitSkipsGeneratorMissStores ==
    [][\A p \in Callers :
          /\ Starts(p) =>
                LET k == call'[p].key
                IN  IF llm_cache[k] # NoEntry /\ clock - llm_cache[k][1] < LLM_CACHE_TTL
                    THEN /\ call'[p].pc = "done"
                         /\ call'[p].ret = llm_cache[k][2]
                         /\ ~call'[p].genCalled /\ ~call'[p].summarized
                         /\ llm_cache' = llm_cache
                    ELSE /\ call'[p].pc = "awaiting"
                         /\ call'[p].genCalled
          /\ Finishes(p) =>
                /\ call[p].genCalled
                /\ call'[p].ret \in Responses =>
                      llm_cache'[call[p].key] = <<call[p].now, call'[p].ret>>]_vars

\* C2 witness: a hit for a truthy context, returned without summarizing or calling
\* the generator, while the other caller's answer for another key was stored.
C2_Witness ==
    \E p, q \in Callers :
        /\ call[p].pc = "done" /\ call[p].hit /\ Truthy(call[p].context)
        /\ ~call[p].genCalled /\ ~call[p].summarized
        /\ call[q].pc = "done" /\ call[q].genCalled /\ call[q].ret \in Responses
        /\ llm_cache[call[q].key] = <<call[q].now, call[q].ret>>

WellFormedEntries ==
    \A k \in CacheKeys :
        llm_cache[k] # NoEntry =>
            /\ Len(llm_cache[k]) = 2
            /\ llm_cache[k][1] \in 0..clock
            /\ llm_cache[k][2] \in Responses
            /\ <<k, llm_cache[k][1], llm_cache[k][2]>> \in stored

\* C22: when two calls with the same fingerprint overlap and both miss, both call
\* the generator (a call that misses goes to the generator even while another call
\* for its key is there), each returns the answer its own round trip produced, and
\* the entry of the key is that of whichever call stored last; the cache holds at
\* most one entry per key and every entry a reader can see is a whole
\* (timestamp, answer) pair written by one call.
C22_OverlappingMissesLastWriteWins ==
    /\ []WellFormedEntries
    /\ [][\A p \in Callers :
             /\ (Starts(p) /\ ~cache_hit(llm_cache, call'[p].key, clock)) =>
                   call'[p].pc = "awaiting" /\ call'[p].genCalled
             /\ (Finishes(p) /\ call'[p].ret \in Responses) =>
                   /\ llm_cache'[call[p].key] = <<call[p].now, call'[p].ret>>
                   /\ <<call[p].key, call[p].now, call'[p].ret>> \in stored'
                   /\ \A q \in Callers \ {p} : call'[q] = call[q]]_vars

\* C22 witness: two calls for one key both went to the generator and returned
\* different answers; the call that started at 599 missed, so the other, which
\* started at 0, stored after that and, its entry being the one held, stored last.
C22_Witness ==
    \E p, q \in Callers :
        /\ call[p].pc = "done" /\ call[q].pc = "done" /\ call[p].key = call[q].key
        /\ call[p].genCalled /\ call[q].genCalled
        /\ call[p].ret \in Responses /\ call[q].ret \in Responses
        /\ call[p].ret # call[q].ret
        /\ call[p].now = 0 /\ call[q].now = LLM_CACHE_TTL - 1
        /\ llm_cache[call[p].key] = <<0, call[p].ret>>

\* C23: entries are created only on a miss after a generation round trip and are
\* never deleted: in every step each key that has an entry keeps one, an entry
\* changes only when a call that missed for its key gets an answer from the
\* generator (and then becomes that call's entry), so an expired entry stays until
\* then; and a call that finds an expired entry is not served it.
C23_EntriesNeverDeleted ==
    [][/\ \A k \in CacheKeys :
             /\ llm_cache[k] # NoEntry => llm_cache'[k] # NoEntry
             /\ llm_cache'[k] # llm_cache[k] =>
                   \E p \in Callers :
                       /\ Finishes(p) /\ call[p].key = k
                       /\ call[p].genCalled /\ ~call[p].hit
                       /\ call'[p].ret \in Responses
                       /\ llm_cache'[k] = <<call[p].now, call'[p].ret>>
       /\ \A p \in Callers :
             (/\ Starts(p)
              /\ llm_cache[call'[p].key] # NoEntry
              /\ clock - llm_cache[call'[p].key][1] >= LLM_CACHE_TTL) =>
                 /\ ~call'[p].hit /\ call'[p].pc = "awaiting"
                 /\ llm_cache'[call'[p].key] = llm_cache[call'[p].key]]_vars

\* C23 witness: a call that started one TTL after the timestamp of its key's entry
\* went to the generator and got no answer; the expired entry is still stored.
C23_Witness ==
    \E p \in Callers :
        /\ call[p].pc = "done" /\ call[p].genCalled /\ call[p].ret \notin Responses
        /\ llm_cache[call[p].key] # NoEntry
        /\ call[p].now - llm_cache[call[p].key][1] >= LLM_CACHE_TTL

\* The step in which caller p's POST settles without an answer: a 429, another
\* HTTP error, a timeout or a malformed response.
Fails(p) == Finishes(p) /\ call'[p].ret \notin Responses

\* A failed generation writes nothing, no entry holds an error text, and whatever
\* is served from the cache is an answer that a successful generator call for the
\* same fingerprint stored.
FailureLeavesCacheUnchanged ==
    \A p \in Callers :
        /\ Fails(p) =>
              /\ llm_cache' = llm_cache /\ stored' = stored
              /\ call'[p].ret = RATE_LIMIT_TEXT \/ call'[p].ret[1] = SORRY_PREFIX
        /\ \A k \in CacheKeys : llm_cache'[k] # NoEntry => llm_cache'[k][2] \in Responses
        /\ (Starts(p) /\ call'[p].hit) =>
              /\ call'[p].ret \in Responses
              /\ \E e \in stored : e[1] = call'[p].key /\ e[3] = call'[p].ret
        /\ (Starts(p) /\ ~call'[p].hit) => call'[p].genCalled

\* C29 as stated: a failed generation leaves the cache unchanged, the error text
\* is never served from the cache, every answer served from the cache was
\* produced by a successful generator call for the same fingerprint, and the next
\* call with the same (query, context) calls the generator again: right after
\* the failure the key has no entry that a call would be served.
C29_NextCallGeneratesAgain ==
    [][/\ FailureLeavesCacheUnchanged
       /\ \A p \in Callers :
             Fails(p) => ~cache_hit(llm_cache', call[p].key, clock)]_vars

\* C29 (amended): a failed generation leaves the cache unchanged, the error text
\* is never served from the cache, and every answer served from the cache was
\* produced by a successful generator call for the same fingerprint.  The next
\* call with the same (query, context) calls the generator again unless the key
\* has an unexpired entry, the stored answer of a successful call that overlapped
\* the failed one.
C29_FailureWritesNothing ==
    [][/\ FailureLeavesCacheUnchanged
       /\ \A p \in Callers :
             (Fails(p) /\ cache_hit(llm_cache', call[p].key, clock)) =>
                 \E e \in stored :
                     /\ e[1] = call[p].key
                     /\ llm_cache'[call[p].key] = <<e[2], e[3]>>]_vars

\* C29 witness: a call got the rate-limit text, nothing was stored for its key,
\* and a later call for the key is at the generator.
C29_Witness ==
    \E p, q \in Callers :
        /\ call[p].pc = "done" /\ call[p].genCalled /\ call[p].ret = RATE_LIMIT_TEXT
        /\ call[q].pc = "awaiting" /\ call[q].key = call[p].key
        /\ call[q].now > call[p].now
        /\ llm_cache[call[p].key] = NoEntry /\ stored = {}

\* The step in which caller p is served from the cache.
Hits(p) == Starts(p) /\ call'[p].hit

\* C30: a cache hit leaves llm_cache unchanged, timestamp and value alike, so the
\* expiry does not slide: whatever the number of hits in between, an answer served
\* from the cache was stored for the key with a timestamp less than 600 s before
\* the call that is served it.
C30_HitLeavesCacheUnchanged ==
    [][\A p \in Callers : Hits(p) =>
          /\ llm_cache' = llm_cache
          /\ \E e \in stored :
                /\ e[1] = call'[p].key
                /\ e[3] = call'[p].ret
                /\ llm_cache[e[1]] = <<e[2], e[3]>>
                /\ clock - e[2] < LLM_CACHE_TTL]_vars

\* C30 witness: an entry stamped 0 that has been served at 0 and is being served
\* again at 599 still carries the stamp 0, and is the only entry ever stored.
C30_Witness ==
    \E p, q \in Callers :
        /\ p # q /\ ncalls = 3
        /\ call[p].pc = "done" /\ call[p].hit /\ call[p].now = 0
        /\ call[q].pc = "done" /\ call[q].hit /\ call[q].now = LLM_CACHE_TTL - 1
        /\ call[q].key = call[p].key
        /\ llm_cache[call[p].key] = <<0, call[p].ret>>
        /\ stored = {<<call[p].key, 0, call[p].ret>>}

-----------------------------------------------------------------------------
(***************************************************************************)
(* The cache key (specification SpecKey): calls whose queries and contexts *)
(* are close to one another, all within one TTL.  A query is the sequence  *)
(* of its characters, so that "a" + "b" and "ab" are the same text.        *)
(***************************************************************************)
KeyQueries == {<<"a">>, <<"a", "b">>, <<"b">>}

\* The same mapping built in two key orders, and no context at all.
ContextTypeFirst ==
    PyDict(<<<<"query_type", PyStr("t")>>, <<"metadata", PyDict(<<<<"week", PyInt(1)>>>>)>>>>)
ContextMetadataFirst ==
    PyDict(<<<<"metadata", PyDict(<<<<"week", PyInt(1)>>>>)>>, <<"query_type", PyStr("t")>>>>)
KeyContexts == {PyNone, ContextTypeFirst, ContextMetadataFirst}

KeyInputs == KeyQueries \X KeyContexts

\* The generator's answer to a query.
AnswerFor(query) == <<"answer to ">> \o query

KeyInit ==
    /\ llm_cache = [k \in {cache_key(a[1], a[2]) : a \in KeyInputs} |-> NoEntry]
    /\ clock = 0
    /\ call = [p \in Callers |-> IdleCall]
    /\ stored = {}
    /\ ncalls = 0

KeyNext ==
    \/ \E p \in Callers, a \in KeyInputs : Start(p, a[1], a[2])
    \/ \E p \in Callers : Finish(p, [kind |-> "ok", text |-> AnswerFor(call[p].query)])
    \/ \E p \in Callers : Return(p)

RECURSIVE PyEq(_, _)
\* a == b in Python: dicts are equal when they hold the same keys with equal
\* values, in whatever order.
PyEq(a, b) ==
    IF IsDict(a) /\ IsDict(b)
    THEN /\ Len(a.kv) = Len(b.kv)
         /\ \A i \in 1..Len(a.kv) :
               Has(b, a.kv[i][1]) /\ PyEq(a.kv[i][2], Item(b, a.kv[i][1]))
    ELSE IF IsList(a) /\ IsList(b)
    THEN /\ Len(a.items) = Len(b.items)
         /\ \A i \in 1..Len(a.items) : PyEq(a.items[i], b.items[i])
    ELSE a = b

\* C17: the key is a function of (query, context), two calls with the same context
\* and different queries have different keys, and a call served from the cache
\* gets an answer generated for its own query.
C17_KeyDeterministicQuerySensitive ==
    /\ \A p, q \in Callers :
          (call[p].pc # "idle" /\ call[q].pc # "idle") =>
              /\ call[p].key = cache_key(call[p].query, call[p].context)
              /\ (call[p].query = call[q].query /\ call[p].context = call[q].context)
                    => call[p].key = call[q].key
              /\ (call[p].query # call[q].query /\ call[p].context = call[q].context)
                    => call[p].key # call[q].key
    /\ \A p \in Callers :
          (call[p].pc = "done" /\ call[p].hit) => call[p].ret = AnswerFor(call[p].query)

\* C17 witness: the cache holds the answers to two different queries with the same
\* context, and a caller was served the one to its own query.
C17_Witness ==
    \E p \in Callers, q2 \in KeyQueries :
        /\ call[p].pc = "done" /\ call[p].hit
        /\ q2 # call[p].query
        /\ llm_cache[cache_key(q2, call[p].context)] # NoEntry
        /\ llm_cache[call[p].key] # NoEntry
        /\ call[p].ret = AnswerFor(call[p].query)

\* C18 as stated: a call whose context equals, as a mapping, the context of an
\* entry cached for the same query hits that entry, whatever the order in which
\* the two contexts' keys were inserted.
C18_EqualMappingsShareEntry ==
    [][\A p \in Callers : Starts(p) =>
          \A c2 \in KeyContexts :
              (/\ PyEq(c2, call'[p].context)
               /\ llm_cache[cache_key(call'[p].query, c2)] # NoEntry)
              => (call'[p].pc = "done" /\ call'[p].hit)]_vars

-----------------------------------------------------------------------------
(***************************************************************************)
(* The fetch layers: NFLApiClient._get, NFLService.get_data and            *)
(* NFLService.get_standings.  An endpoint is its path as a sequence of     *)
(* tokens ("/nfl/draft-rankings" is "/", "nfl", "/", "draft", "-",         *)
(* "rankings"), so that the substring tests and replacements of the code   *)
(* are computed on it.                                                     *)
(***************************************************************************)
NFL_PREFIX == <<"/", "nfl", "/">>
STANDINGS == <<"standings">>
TEAMS == <<"teams">>
PLAYERS == <<"players">>
DRAFT_RANKINGS == <<"draft", "-", "rankings">>

\* pattern in text, for token sequences.
ContainsSeq(text, pat) ==
    \E i \in 0..(Len(text) - Len(pat)) : SubSeq(text, i + 1, i + Len(pat)) = pat

\* Mutant of ReplaceToken: nothing is replaced.
ReplaceToken_nothing(text, old, new) == text

\* text.replace(old, new), for a one-token old.
ReplaceToken(text, old, new) ==
    [i \in 1..Len(text) |-> IF text[i] = old THEN new ELSE text[i]]

\* text.replace(pat, ""), for a pattern that occurs at most once.
RemoveSeq(text, pat) ==
    IF ContainsSeq(text, pat)
    THEN LET i == CHOOSE j \in 0..(Len(text) - Len(pat)) :
                      SubSeq(text, j + 1, j + Len(pat)) = pat
         IN  SubSeq(text, 1, i) \o SubSeq(text, i + Len(pat) + 1, Len(text))
    ELSE text

\* The str that a token sequence spells: the concatenation of its tokens.
RECURSIVE Concat(_)
Concat(tokens) == IF tokens = <<>> THEN "" ELSE Head(tokens) \o Concat(Tail(tokens))
Joined(tokens) == Concat(tokens)

\* What the upstream does with one GET: a 2xx response with a JSON body, a non-2xx
\* response, no response in time, a transport failure, or a 2xx response whose
\* body is not JSON.
Upstream_ok(data) == [kind |-> "ok", data |-> data]
Upstream_status(code) == [kind |-> "status", code |-> code]
Upstream_timeout == [kind |-> "timeout"]
Upstream_transport == [kind |-> "transport"]
Upstream_badjson == [kind |-> "badjson"]

\* Mutant of HTTPException: every failure is raised with status 500.
HTTPException_always_500(status_code, detail) ==
    [t |-> "exc", type |-> "HTTPException", status_code |-> 500, detail |-> detail]

\* raise HTTPException(status_code=..., detail=...)
HTTPException(status_code, detail) ==
    [t |-> "exc", type |-> "HTTPException", status_code |-> status_code,
     detail |-> detail]

\* str(e) of an HTTPException: "<status_code>: <detail>".
StrOfException(e) == PyText(<<ToString(e.status_code), ": ">> \o e.detail)

NO_STANDINGS ==
    PyDict(<<<<"standings", EmptyDict>>,
             <<"message", PyStr("No standings data available")>>>>)

\* {"standings": {}, "message": <text>}
StandingsPlaceholder(text) ==
    PyDict(<<<<"standings", EmptyDict>>, <<"message", PyText(text)>>>>)

\* api_client.py lines 173-211.
_get(endpoint, up) ==
    CASE up.kind = "ok" ->
            LET data == up.data
            IN  IF /\ endpoint = NFL_PREFIX \o STANDINGS
                   /\ (IsNone(data) \/ (IsList(data) /\ Len(data.items) = 0))
                THEN NO_STANDINGS
                ELSE IF IsList(data) /\ ~Truthy(data)
                THEN IF ContainsSeq(endpoint, STANDINGS)
                     THEN PyDict(<<<<"standings", EmptyDict>>>>)
                     ELSE IF ContainsSeq(endpoint, PLAYERS)
                     THEN PyDict(<<<<"players", EmptyList>>>>)
                     ELSE PyDict(<<<<Joined(ReplaceToken(RemoveSeq(endpoint, NFL_PREFIX),
                                                         "-", "_")), EmptyDict>>>>)
                ELSE data
      [] up.kind = "status" ->
            LET detail == <<"API error ", ToString(up.code), ": ", "status">>
            IN  IF ContainsSeq(endpoint, NFL_PREFIX \o STANDINGS)
                THEN StandingsPlaceholder(detail)
                ELSE HTTPException(up.code, detail)
      [] OTHER ->
            LET error_msg == <<"Error accessing API: ", up.kind>>
            IN  IF ContainsSeq(endpoint, NFL_PREFIX \o STANDINGS)
                THEN StandingsPlaceholder(error_msg)
                ELSE HTTPException(500, error_msg)

\* nfl_service.py line 71 and lines 66-75: the detail of a non-2xx response.
status_detail(endpoint, status_code) ==
    CASE status_code = 401 -> <<"API key invalid or expired">>
      [] status_code = 403 -> <<"Access forbidden. Check API subscription">>
      [] status_code = 404 -> <<"Resource not found: ">> \o endpoint
      [] status_code = 429 -> <<"Rate limit exceeded">>
      [] OTHER -> <<"HTTP error ", ToString(status_code), ": ", "status">>

\* nfl_service.py lines 21-92.
get_data(endpoint_arg, up) ==
    LET endpoint == IF endpoint_arg # <<>> /\ Head(endpoint_arg) = "/"
                    THEN Tail(endpoint_arg) ELSE endpoint_arg
    IN  CASE up.kind = "ok" ->
                LET data == up.data
                IN  IF IsList(data) /\ ~Truthy(data)
                    THEN IF endpoint = STANDINGS THEN NO_STANDINGS
                         ELSE IF endpoint \in {DRAFT_RANKINGS, <<"player", "-", "tiers">>,
                                               <<"auction", "-", "values">>, <<"adp">>,
                                               <<"best", "-", "ball">>}
                         THEN PyDict(<<<<Joined(ReplaceToken(endpoint, "-", "_")),
                                         EmptyDict>>>>)
                         ELSE IF endpoint = TEAMS
                         THEN PyDict(<<<<"teams", EmptyList>>>>)
                         ELSE PyDict(<<<<Joined(ReplaceToken(endpoint, "-", "_")),
                                         EmptyDict>>>>)
                    ELSE data
          [] up.kind = "timeout" ->
                LET error_msg == <<"Request to ", "BASE_URL", "/">> \o endpoint
                                 \o <<" timed out">>
                IN  IF endpoint = STANDINGS THEN StandingsPlaceholder(error_msg)
                    ELSE HTTPException(408, error_msg)
          [] up.kind = "status" ->
                LET detail == status_detail(endpoint, up.code)
                IN  IF endpoint = STANDINGS THEN StandingsPlaceholder(detail)
                    ELSE HTTPException(up.code, detail)
          [] OTHER ->
                LET error_msg == <<"Unexpected error: ", up.kind>>
                IN  IF endpoint = STANDINGS THEN StandingsPlaceholder(error_msg)
                    ELSE HTTPException(500, error_msg)

\* nfl_service.py lines 120-130.
get_standings(up) ==
    LET data == get_data(STANDINGS, up)
    IN  IF IsExc(data)
        THEN StandingsPlaceholder(<<"Error retrieving standings: ">>
                                  \o StrOfException(data).text)
        ELSE IF IsList(data) /\ Len(data.items) = 0 THEN NO_STANDINGS
        ELSE data

\* A record of a standings payload, and a payload of the documented shape.
TeamRecord(name) ==
    PyDict(<<<<"name", PyStr(name)>>, <<"wins", PyInt(1)>>, <<"losses", PyInt(0)>>>>)
StandingsPayload ==
    PyDict(<<<<"season", PyDict(<<<<"year", PyInt(2024)>>>>)>>,
             <<"conferences", PyList(<<
                 PyDict(<<<<"name", PyStr("AFC")>>,
                          <<"divisions", PyList(<<
                              PyDict(<<<<"name", PyStr("East")>>,
                                       <<"teams", PyList(<<TeamRecord("BUF")>>)>>>>)>>)>>>>)>>)>>>>)

\* The JSON bodies a 2xx response may carry.
Bodies ==
    {PyNone, EmptyList, EmptyDict, EmptyStr, PyStr("oops"), PyInt(42),
     PyDict(<<<<"foo", PyInt(1)>>>>), PyList(<<TeamRecord("BUF")>>), StandingsPayload}

Upstreams ==
    {Upstream_ok(d) : d \in Bodies}
    \cup {Upstream_status(c) : c \in {401, 403, 404, 429, 500, 503}}
    \cup {Upstream_timeout, Upstream_transport, Upstream_badjson}

ClientEndpoints == {NFL_PREFIX \o e : e \in {STANDINGS, TEAMS, PLAYERS, DRAFT_RANKINGS}}
ServiceEndpoints == {STANDINGS, TEAMS, DRAFT_RANKINGS, <<"/">> \o STANDINGS}

FetchInit ==
    /\ f_layer \in {"_get", "get_data", "get_standings"}
    /\ f_endpoint \in CASE f_layer = "_get" -> ClientEndpoints
                        [] f_layer = "get_data" -> ServiceEndpoints
                        [] OTHER -> {STANDINGS}
    /\ f_upstream \in Upstreams
    /\ f_pc = "ready"
    /\ f_result = PyNone

\* One call of the chosen function against the chosen upstream behaviour.
Fetch ==
    /\ f_pc = "ready"
    /\ f_result' = CASE f_layer = "_get" -> _get(f_endpoint, f_upstream)
                     [] f_layer = "get_data" -> get_data(f_endpoint, f_upstream)
                     [] OTHER -> get_standings(f_upstream)
    /\ f_pc' = "done"
    /\ UNCHANGED <<f_layer, f_endpoint, f_upstream>>
    /\ UNCHANGED notFetch

-----------------------------------------------------------------------------
(***************************************************************************)
(* NFLApiClient.batch_get and _safe_get.  batch_get creates one _safe_get  *)
(* coroutine per request and hands them all to asyncio.gather, which wraps *)
(* each in a task and suspends batch_get until they are done.  Each task   *)
(* sends its request when the loop first runs it and settles when the      *)
(* upstream answers, fails or times out.                                   *)
(***************************************************************************)
MaxReqs == 3      \* requests in one batch

BatchEndpoints == {NFL_PREFIX \o STANDINGS, NFL_PREFIX \o TEAMS}
BatchUpstreams ==
    {Upstream_ok(PyList(<<TeamRecord("BUF")>>)), Upstream_status(404), Upstream_timeout}
\* The request lists batch_get is called with, the empty list included.
RequestLists == UNION {[1..n -> BatchEndpoints] : n \in 0..MaxReqs}

\* The tuple (success, result, error) of _safe_get.
PyTuple3(success, result, error) ==
    [t |-> "tuple", success |-> success, result |-> result, error |-> error]

\* Mutant of _safe_get: no try/except around the fetch.
_safe_get_unguarded(endpoint, up) ==
    LET result == _get(endpoint, up)
    IN  IF IsExc(result) THEN result ELSE PyTuple3(TRUE, result, PyNone)

\* Mutant of _safe_get: the except branch reports success.
_safe_get_always_true(endpoint, up) ==
    LET result == _get(endpoint, up)
    IN  IF IsExc(result) THEN PyTuple3(TRUE, PyNone, StrOfException(result))
        ELSE PyTuple3(TRUE, result, PyNone)

\* Lines 43-47: (True, result, None), or (False, None, str(e)) when _get raises.
_safe_get(endpoint, up) ==
    LET result == _get(endpoint, up)
    IN  IF IsExc(result) THEN PyTuple3(FALSE, PyNone, StrOfException(result))
        ELSE PyTuple3(TRUE, result, PyNone)

\* A task of the gather: not yet run, suspended in client.get, or done.
NewTask(endpoint) ==
    [state |-> "scheduled", endpoint |-> endpoint, up |-> Upstream_timeout,
     result |-> PyNone]

\* Lines 24-27: one coroutine per request, in request order.
create_tasks(reqs) == [k \in 1..Len(reqs) |-> NewTask(reqs[k])]

\* Mutant of gather_ready: gather resumes its caller at the first task done.
gather_ready_first(ts) ==
    ts = <<>> \/ \E k \in 1..Len(ts) : ts[k].state = "done"

\* asyncio.gather (line 29): its future is done when every task is done, or, with
\* return_exceptions=False, as soon as one task has raised.
gather_ready(ts) ==
    \/ \A k \in 1..Len(ts) : ts[k].state = "done"
    \/ \E k \in 1..Len(ts) : ts[k].state = "done" /\ IsExc(ts[k].result)

\* Mutant of gather_results: the results in the order the tasks completed.
gather_results_as_completed(ts, order) ==
    [i \in 1..Len(order) |-> ts[order[i]].result]

\* asyncio.gather (line 29): the results in the order of its arguments.
gather_results(ts, order) == [k \in 1..Len(ts) |-> ts[k].result]

\* Lines 24-29, up to the suspension in gather.
BatchCall ==
    /\ b_pc = "idle"
    /\ tasks' = create_tasks(requests)
    /\ b_pc' = "gathering"
    /\ UNCHANGED <<requests, completed, b_ret>>
    /\ UNCHANGED notBatch

\* The loop runs task k for the first time: it sends its GET (line 175).
TaskStart(k) ==
    /\ b_pc \in {"gathering", "returned", "raised"}
    /\ k \in 1..Len(tasks)
    /\ tasks[k].state = "scheduled"
    /\ tasks' = [tasks EXCEPT ![k].state = "inflight"]
    /\ UNCHANGED <<requests, b_pc, completed, b_ret>>
    /\ UNCHANGED notBatch

\* The fetch of task k settles and _safe_get returns (or raises).
TaskSettle(k, up) ==
    /\ k \in 1..Len(tasks)
    /\ tasks[k].state = "inflight"
    /\ tasks' = [tasks EXCEPT ![k].state = "done", ![k].up = up,
                              ![k].result = _safe_get(tasks[k].endpoint, up)]
    /\ completed' = Append(completed, k)
    /\ UNCHANGED <<requests, b_pc, b_ret>>
    /\ UNCHANGED notBatch

\* Lines 29-30: gather resumes batch_get, which returns the results, or raises the
\* first exception of a task.
BatchResume ==
    /\ b_pc = "gathering"
    /\ gather_ready(tasks)
    /\ IF \E k \in 1..Len(tasks) : tasks[k].state = "done" /\ IsExc(tasks[k].result)
       THEN /\ b_pc' = "raised"
            /\ b_ret' = tasks[completed[Len(completed)]].result
       ELSE /\ b_pc' = "returned"
            /\ b_ret' = PyList(gather_results(tasks, completed))
    /\ UNCHANGED <<requests, tasks, completed>>
    /\ UNCHANGED notBatch

BatchInit ==
    /\ requests \in RequestLists
    /\ b_pc = "idle"
    /\ tasks = <<>>
    /\ completed = <<>>
    /\ b_ret = PyNone

-----------------------------------------------------------------------------
(***************************************************************************)
(* Claims about batch_get (specifications SpecBatch and FairBatch).        *)
(***************************************************************************)
\* The upstream fetch of task k failed: a non-2xx status, a timeout or a transport
\* error.
UpstreamFailed(k) == tasks[k].state = "done" /\ tasks[k].up.kind # "ok"
\* The value _get hands back for the upstream outcome of task k.
OwnPayload(k) == _get(tasks[k].endpoint, tasks[k].up)
AllDone == \A k \in 1..Len(tasks) : tasks[k].state = "done"

\* C3: batch_get returns a list with exactly one result per request (the empty list
\* for no request), and the result at index k is the one of request k, whatever the
\* order in which the fetches completed.
C3_OneResultPerRequestInOrder ==
    b_pc = "returned" =>
        /\ IsList(b_ret)
        /\ Len(b_ret.items) = Len(requests)
        /\ \A k \in 1..Len(requests) :
              /\ tasks[k].endpoint = requests[k]
              /\ b_ret.items[k] = _safe_get(requests[k], tasks[k].up)

\* C3 witness: three requests were answered in an order other than the request
\* order, with different results, and batch_get has returned.
C3_Witness ==
    /\ b_pc = "returned"
    /\ Len(requests) = 3
    /\ completed = <<3, 1, 2>>
    /\ b_ret.items[1] # b_ret.items[2]
    /\ b_ret.items[2] # b_ret.items[3]
    /\ b_ret.items[1] # b_ret.items[3]

\* C4 as stated: when the upstream fetch of exactly one request i fails and all
\* others succeed, whatever the endpoints, exactly the i-th result has success=False
\* and every other has success=True with its own payload.
C4_ExactlyFailingSlotMarkedFailed ==
    b_pc = "returned" =>
        \A i \in 1..Len(tasks) :
            (\A k \in 1..Len(tasks) : UpstreamFailed(k) <=> k = i) =>
                \A k \in 1..Len(tasks) :
                    IF k = i
                    THEN b_ret.items[k].success = FALSE
                    ELSE b_ret.items[k] = PyTuple3(TRUE, OwnPayload(k), PyNone)

\* C4 (amended): when the upstream fetch of exactly one request i fails and all
\* others succeed, every other result has success=True with its own payload at its
\* own index; the i-th has success=False, no result and an error text, unless its
\* endpoint contains "/nfl/standings", in which case it has success=True with the
\* placeholder {"standings": {}, "message": ...}.
C4_FailingSlotFailedUnlessStandings ==
    b_pc = "returned" =>
        \A i \in 1..Len(tasks) :
            (\A k \in 1..Len(tasks) : UpstreamFailed(k) <=> k = i) =>
                /\ Len(b_ret.items) = Len(requests)
                /\ \A k \in 1..Len(tasks) :
                      IF k # i
                      THEN b_ret.items[k] = PyTuple3(TRUE, OwnPayload(k), PyNone)
                      ELSE IF ContainsSeq(requests[i], NFL_PREFIX \o STANDINGS)
                      THEN /\ b_ret.items[i].success = TRUE
                           /\ IsDict(b_ret.items[i].result)
                           /\ Keys(b_ret.items[i].result) = <<"standings", "message">>
                           /\ Item(b_ret.items[i].result, "standings") = EmptyDict
                      ELSE /\ b_ret.items[i].success = FALSE
                           /\ b_ret.items[i].result = PyNone
                           /\ IsStr(b_ret.items[i].error)

\* C4 witness: of three requests, only the second, not a standings one, failed;
\* its slot is marked failed and the two others carry their payloads.
C4_Witness ==
    /\ b_pc = "returned"
    /\ Len(requests) = 3
    /\ UpstreamFailed(2) /\ ~UpstreamFailed(1) /\ ~UpstreamFailed(3)
    /\ ~ContainsSeq(requests[2], NFL_PREFIX \o STANDINGS)
    /\ b_ret.items[2].success = FALSE
    /\ b_ret.items[1].success /\ b_ret.items[3].success

\* C5: whatever subset of the fetches raises, batch_get itself never raises, every
\* slot whose fetch raised becomes (False, None, message), and no task is dropped:
\* when batch_get returns, every task of the batch has run to its own completion.
C5_BatchNeverRaisesNoCancellation ==
    /\ b_pc # "raised"
    /\ \A k \in 1..Len(tasks) :
          tasks[k].state = "done" =>
              /\ ~IsExc(tasks[k].result)
              /\ IsExc(OwnPayload(k)) =>
                    /\ tasks[k].result.success = FALSE
                    /\ tasks[k].result.result = PyNone
                    /\ IsStr(tasks[k].result.error)
    /\ b_pc = "returned" =>
          /\ AllDone
          /\ \A k \in 1..Len(tasks) : b_ret.items[k] = tasks[k].result

\* C5 witness: two fetches of a batch of three raised, the first to complete among
\* them, and batch_get returned all three results.
C5_Witness ==
    /\ b_pc = "returned"
    /\ Len(requests) = 3
    /\ IsExc(OwnPayload(1)) /\ IsExc(OwnPayload(2)) /\ ~IsExc(OwnPayload(3))
    /\ UpstreamFailed(1) /\ UpstreamFailed(2)
    /\ completed[1] = 1
    /\ b_ret.items[1].success = FALSE /\ b_ret.items[2].success = FALSE
    /\ b_ret.items[3].success = TRUE

\* C6: batch_get is a fan-out/fan-in.  Every request has its task before batch_get
\* awaits anything (no task has run while it is still building them); it returns
\* only after every task has settled, with all the results; and, every fetch
\* eventually settling, a call of batch_get eventually returns.
C6_FanOutFanIn ==
    /\ [](b_pc = "idle" => tasks = <<>>)
    /\ [](b_pc = "gathering" =>
            /\ Len(tasks) = Len(requests)
            /\ \A k \in 1..Len(tasks) : tasks[k].endpoint = requests[k])
    /\ [](b_pc = "returned" => AllDone /\ Len(b_ret.items) = Len(requests))
    /\ (b_pc = "idle" ~> b_pc = "returned")

\* C6 witness: batch_get is suspended in gather with every task of a batch of
\* three created, one settled, one in flight and one not yet run.
C6_Witness ==
    /\ b_pc = "gathering"
    /\ Len(requests) = 3
    /\ Len(tasks) = 3
    /\ \E i, j, k \in 1..3 :
          /\ tasks[i].state = "done"
          /\ tasks[j].state = "inflight"
          /\ tasks[k].state = "scheduled"

-----------------------------------------------------------------------------
(***************************************************************************)
(* One _safe_get against every answer of the upstream (specification       *)
(* SpecSafe).                                                              *)
(***************************************************************************)
SafeInit ==
    /\ f_layer = "_safe_get"
    /\ f_endpoint \in ClientEndpoints
    /\ f_upstream \in Upstreams
    /\ f_pc = "ready"
    /\ f_result = PyNone

\* One call of _safe_get.
SafeFetch ==
    /\ f_pc = "ready"
    /\ f_layer = "_safe_get"
    /\ f_result' = _safe_get(f_endpoint, f_upstream)
    /\ f_pc' = "done"
    /\ UNCHANGED <<f_layer, f_endpoint, f_upstream>>
    /\ UNCHANGED notFetch

\* C20 as stated: a returned tuple with success False has value None and a
\* non-null, non-empty error message; one with success True has error None and a
\* non-null value.
C20_FetchResultWellFormed ==
    f_pc = "done" =>
        /\ f_result.t = "tuple"
        /\ IF f_result.success
           THEN IsNone(f_result.error) /\ ~IsNone(f_result.result)
           ELSE /\ IsNone(f_result.result)
                /\ IsStr(f_result.error) /\ Truthy(f_result.error)

-----------------------------------------------------------------------------
(***************************************************************************)
(* Claims about the standings fetch (specification SpecFetch).             *)
(***************************************************************************)
\* The call is one of _get('/nfl/standings'), get_data('standings') (with or
\* without a leading slash) and get_standings().
StandingsCall ==
    \/ f_layer = "_get" /\ f_endpoint = NFL_PREFIX \o STANDINGS
    \/ f_layer = "get_data" /\ f_endpoint \in {STANDINGS, <<"/">> \o STANDINGS}
    \/ f_layer = "get_standings"

\* The upstream answered 2xx with an empty payload (null, [], {}, "") or with one
\* that is no JSON object at all.
EmptyOrMalformed(up) ==
    up.kind = "ok" /\ (~Truthy(up.data) \/ IsStr(up.data) \/ IsInt(up.data))

\* A placeholder: an object with the key 'standings' mapped to an empty object.
IsStandingsPlaceholder(v) ==
    IsDict(v) /\ Has(v, "standings") /\ Item(v, "standings") = EmptyDict

\* C7 as stated: a standings fetch returns without raising for every upstream
\* outcome, and whenever the upstream payload is empty or malformed the value
\* returned is a placeholder object with 'standings' mapped to an empty object.
C7_StandingsPlaceholderOnEmptyOrMalformed ==
    f_pc = "done" /\ StandingsCall =>
        /\ ~IsExc(f_result)
        /\ EmptyOrMalformed(f_upstream) => IsStandingsPlaceholder(f_result)

-----------------------------------------------------------------------------
(***************************************************************************)
(* Both fetch layers against the endpoints the service methods call them   *)
(* with (specification SpecLayers).                                        *)
(***************************************************************************)
\* Endpoint names that the get-methods of the two classes pass.
EndpointNames ==
    {STANDINGS, TEAMS, PLAYERS, DRAFT_RANKINGS, <<"adp">>, <<"player", "-", "tiers">>,
     <<"weekly", "-", "rankings">>, <<"bye", "-", "weeks">>, <<"injuries">>}

\* NFLApiClient._get is called with "/nfl/<name>"; NFLService.get_data with
\* "<name>", which it also accepts with a leading slash.
LayerClientEndpoints == {NFL_PREFIX \o e : e \in EndpointNames}
LayerServiceEndpoints == EndpointNames \cup {<<"/">> \o e : e \in {STANDINGS, TEAMS, <<"adp">>}}

\* The upstream's answers: those of Upstreams, and further non-2xx statuses.
LayerUpstreams ==
    Upstreams \cup {Upstream_status(c) : c \in {302, 400, 408, 502}}

LayersInit ==
    /\ f_layer \in {"_get", "get_data"}
    /\ f_endpoint \in IF f_layer = "_get" THEN LayerClientEndpoints ELSE LayerServiceEndpoints
    /\ f_upstream \in LayerUpstreams
    /\ f_pc = "ready"
    /\ f_result = PyNone

\* Lines 21-23 of nfl_service.py: the endpoint without its leading slash.
ServiceEndpoint ==
    IF f_endpoint # <<>> /\ Head(f_endpoint) = "/" THEN Tail(f_endpoint) ELSE f_endpoint

\* C27: for every endpoint other than standings, get_data reports an upstream
\* failure by raising an HTTPException and never by returning a value: a timeout
\* raises status 408, a non-2xx response raises with the upstream's status code
\* (with fixed details for 401, 403, 404 and 429), and any other failure raises
\* status 500.
C27_ServiceFailuresRaise ==
    (f_pc = "done" /\ f_layer = "get_data" /\ ServiceEndpoint # STANDINGS
        /\ f_upstream.kind # "ok") =>
        /\ IsExc(f_result) /\ f_result.type = "HTTPException"
        /\ f_upstream.kind = "timeout" => f_result.status_code = 408
        /\ f_upstream.kind = "status" =>
              /\ f_result.status_code = f_upstream.code
              /\ f_upstream.code = 401 => f_result.detail = <<"API key invalid or expired">>
              /\ f_upstream.code = 403 =>
                    f_result.detail = <<"Access forbidden. Check API subscription">>
              /\ f_upstream.code = 404 =>
                    f_result.detail = <<"Resource not found: ">> \o ServiceEndpoint
              /\ f_upstream.code = 429 => f_result.detail = <<"Rate limit exceeded">>
        /\ f_upstream.kind \notin {"timeout", "status"} => f_result.status_code = 500

\* C27 witness: get_data("/teams") against an upstream that answered 404 raised
\* HTTPException 404 "Resource not found: teams".
C27_Witness ==
    /\ f_pc = "done" /\ f_layer = "get_data" /\ f_endpoint = <<"/">> \o TEAMS
    /\ f_upstream = Upstream_status(404)
    /\ f_result = HTTPException(404, <<"Resource not found: ", "teams">>)

\* The name of the endpoint: without "/nfl/" in the client, without the leading
\* slash in the service.
EndpointName ==
    IF f_layer = "_get" THEN SubSeq(f_endpoint, Len(NFL_PREFIX) + 1, Len(f_endpoint))
    ELSE ServiceEndpoint

\* The endpoint's name as a str, with every '-' replaced by '_'.
UnderscoredName ==
    Concat([i \in 1..Len(EndpointName) |->
               IF EndpointName[i] = "-" THEN "_" ELSE EndpointName[i]])

-----------------------------------------------------------------------------
(***************************************************************************)
(* The Python operations the reducers are written with.  An operation that *)
(* raises yields an exception value, and every operation handed an         *)
(* exception value yields it back, so that a reducer written as nested     *)
(* operators evaluates to the first exception its code would raise.        *)
(***************************************************************************)
TypeName(v) ==
    CASE IsNone(v) -> "NoneType" [] IsStr(v) -> "str" [] IsInt(v) -> "int"
      [] IsList(v) -> "list" [] IsDict(v) -> "dict" [] OTHER -> "object"

AttributeError(v, attr) ==
    Raised("AttributeError",
           <<"'", TypeName(v), "' object has no attribute '", attr, "'">>)
TypeError(v, what) == Raised("TypeError", <<"'", TypeName(v), "' object ", what>>)

\* str(e)
StrOfError(e) == PyText(e.msg)

\* The characters of a str, each a str.
Chars(v) ==
    IF "s" \in DOMAIN v THEN (IF v.s = "" THEN <<>> ELSE <<v>>)
    ELSE [i \in 1..Len(v.text) |-> PyText(<<v.text[i]>>)]

\* len(v)
PyLen(v) ==
    CASE IsList(v) -> Len(v.items) [] IsDict(v) -> Len(v.kv)
      [] IsStr(v) -> Len(Chars(v)) [] OTHER -> 0

\* v.get(key, default)
PyGet(v, key, default) ==
    IF IsExc(v) THEN v
    ELSE IF ~IsDict(v) THEN AttributeError(v, "get")
    ELSE IF IsExc(default) THEN default
    ELSE Get(v, key, default)

\* v[key], for a str key.
PyItem(v, key) ==
    IF IsExc(v) THEN v
    ELSE IF IsDict(v) THEN (IF Has(v, key) THEN Item(v, key)
                            ELSE Raised("KeyError", <<"'", key, "'">>))
    ELSE IF IsList(v) \/ IsStr(v)
    THEN Raised("TypeError", <<TypeName(v), " indices must be integers">>)
    ELSE TypeError(v, "is not subscriptable")

\* Mutant of Slice: the whole sequence, whatever n is.
Slice_whole(v, n) == v

\* v[:n]
Slice(v, n) ==
    IF IsExc(v) THEN v
    ELSE IF IsList(v) THEN PyList(Take(v.items, n))
    ELSE IF IsStr(v) THEN (IF "s" \in DOMAIN v THEN v ELSE PyText(Take(v.text, n)))
    ELSE IF IsDict(v) THEN Raised("TypeError", <<"unhashable type: 'slice'">>)
    ELSE TypeError(v, "is not subscriptable")

\* iter(v), as the list of what the iteration yields.
Iter(v) ==
    IF IsExc(v) THEN v
    ELSE IF IsList(v) THEN v
    ELSE IF IsStr(v) THEN PyList(Chars(v))
    ELSE IF IsDict(v) THEN PyList([i \in 1..Len(v.kv) |-> PyStr(v.kv[i][1])])
    ELSE TypeError(v, "is not iterable")

\* key in v raises for a value that is no container.
InRaises(v) == ~(IsDict(v) \/ IsList(v) \/ IsStr(v))
\* key in v, for a str key (no str of the inputs contains a key as a substring).
InHolds(key, v) ==
    \/ IsDict(v) /\ Has(v, key)
    \/ IsList(v) /\ \E i \in 1..Len(v.items) : v.items[i] = PyStr(key)

\* The first exception of a sequence of values, if any.
FirstExc(q) == q[CHOOSE i \in 1..Len(q) : IsExc(q[i]) /\ \A j \in 1..(i - 1) : ~IsExc(q[j])]
HasExc(q) == \E i \in 1..Len(q) : IsExc(q[i])

\* A dict display {k1: v1, ...}: its values are evaluated in order.
MkDict(pairs) ==
    LET vals == [i \in 1..Len(pairs) |-> pairs[i][2]]
    IN  IF HasExc(vals) THEN FirstExc(vals) ELSE PyDict(pairs)

\* An iteration of the loop that appends nothing.
Skip == [t |-> "skip"]
Kept(q) == SelectSeq(q, LAMBDA x : x # Skip)

\* result = []; for x in v: result.append(F(x))
ForEach(F(_), v) ==
    LET it == Iter(v)
    IN  IF IsExc(it) THEN it
        ELSE LET r == [i \in 1..Len(it.items) |-> F(it.items[i])]
             IN  IF HasExc(r) THEN FirstExc(r) ELSE PyList(Kept(r))

\* result = {}; for k, x in v.items(): result[k] = F(k, x)
ForEachItem(F(_, _), v) ==
    IF IsExc(v) THEN v
    ELSE IF ~IsDict(v) THEN AttributeError(v, "items")
    ELSE LET r == [i \in 1..Len(v.kv) |-> F(v.kv[i][1], v.kv[i][2])]
             keep == SelectSeq([i \in 1..Len(r) |-> i], LAMBDA i : r[i] # Skip)
         IN  IF HasExc(r) THEN FirstExc(r)
             ELSE PyDict([j \in 1..Len(keep) |-> <<v.kv[keep[j]][1], r[keep[j]]>>])

\* try: v / except Exception: fallback
Try(v, fallback) == IF IsExc(v) THEN fallback ELSE v

Summary(text) == PyDict(<<<<"summary", PyStr(text)>>>>)

\* try: v / except Exception as e: {"summary": text, "error": str(e)}
TryWithError(v, text) ==
    IF IsExc(v) THEN PyDict(<<<<"summary", PyStr(text)>>, <<"error", StrOfError(v)>>>>)
    ELSE v

\* str(v)
PyStrOf(v) == IF IsStr(v) THEN v ELSE PyText(Repr(v))

\* len(v)
PyLenOf(v) ==
    IF IsExc(v) THEN v
    ELSE IF IsList(v) \/ IsDict(v) \/ IsStr(v) THEN PyInt(PyLen(v))
    ELSE TypeError(v, "has no len()")

\* {k: v for k, v in d.items() if k not in excluded and not isinstance(v, dict)},
\* lists being dropped too when noLists.
ScalarItems(d, excluded, noLists) ==
    PyDict(SelectSeq(d.kv, LAMBDA pr : /\ pr[1] \notin excluded
                                       /\ ~IsDict(pr[2])
                                       /\ ~(noLists /\ IsList(pr[2]))))

\* for k, v in d.items(): base[k] = v
Update(base, d) ==
    PyDict([i \in 1..Len(base.kv) |->
               IF Has(d, base.kv[i][1]) THEN <<base.kv[i][1], Item(d, base.kv[i][1])>>
               ELSE base.kv[i]]
           \o SelectSeq(d.kv, LAMBDA pr : ~Has(base, pr[1])))

\* if key in src: d[key] = src.get(key, default), for a dict src.
CopyIfPresent(d, src, key, name) ==
    IF Has(src, key) THEN SetItem(d, name, Item(src, key)) ELSE d

-----------------------------------------------------------------------------
(***************************************************************************)
(* The category reducers of LLMService.                                    *)
(***************************************************************************)
\* Lines 300-306.
league_team_sample(team) ==
    IF IsDict(team)
    THEN MkDict(<<<<"name", PyGet(team, "name", EmptyStr)>>,
                  <<"market", PyGet(team, "market", EmptyStr)>>,
                  <<"alias", PyGet(team, "alias", EmptyStr)>>,
                  <<"conference", PyGet(team, "conference", EmptyStr)>>,
                  <<"division", PyGet(team, "division", EmptyStr)>>>>)
    ELSE Skip

\* Lines 333-337.
league_division_team(team) ==
    MkDict(<<<<"name", PyGet(team, "name", EmptyStr)>>,
             <<"market", PyGet(team, "market", EmptyStr)>>,
             <<"alias", PyGet(team, "alias", EmptyStr)>>>>)

\* Lines 326-339.
league_division(division) ==
    MkDict(<<<<"name", PyGet(division, "name", EmptyStr)>>,
             <<"alias", PyGet(division, "alias", EmptyStr)>>,
             <<"teams", ForEach(league_division_team,
                                PyGet(division, "teams", EmptyList))>>>>)

\* Lines 319-341.
league_conference(conference) ==
    MkDict(<<<<"name", PyGet(conference, "name", EmptyStr)>>,
             <<"alias", PyGet(conference, "alias", EmptyStr)>>,
             <<"divisions", ForEach(league_division,
                                    PyGet(conference, "divisions", EmptyList))>>>>)

\* Lines 284-346.  The read of the name (line 312) is outside the try.
_summarize_league_structure(league_data) ==
    IF ~Truthy(league_data) THEN EmptyDict
    ELSE IF IsList(league_data)
    THEN MkDict(<<<<"league_name", PyStr("NFL")>>,
                  <<"teams_count", PyInt(PyLen(league_data))>>,
                  <<"teams_sample", ForEach(league_team_sample, Slice(league_data, 10))>>>>)
    ELSE LET name == PyGet(league_data, "name", PyStr("NFL"))
         IN  IF IsExc(name) THEN name
             ELSE Try(MkDict(<<<<"league_name", name>>,
                               <<"conferences",
                                 IF InHolds("conferences", league_data)
                                 THEN ForEach(league_conference,
                                              PyItem(league_data, "conferences"))
                                 ELSE EmptyList>>>>),
                      Summary("League structure data available but could not be summarized"))

\* sorted(v, key=lambda p: p.get(key, default), reverse=reverse), for int keys: a
\* stable sort.  (A comparison of keys that are not all ints raises TypeError.)
SortedByGet(v, key, default, reverse) ==
    LET it == Iter(v)
    IN  IF IsExc(it) THEN it
        ELSE LET q == it.items
                 ks == [i \in 1..Len(q) |-> PyGet(q[i], key, default)]
                 before(i) == {j \in 1..Len(q) :
                                  \/ ~reverse /\ ks[j].n < ks[i].n
                                  \/ reverse /\ ks[j].n > ks[i].n
                                  \/ ks[j].n = ks[i].n /\ j < i}
             IN  IF HasExc(ks) THEN FirstExc(ks)
                 ELSE IF Len(q) > 1 /\ \E i \in 1..Len(q) : ~IsInt(ks[i])
                 THEN Raised("TypeError", <<"'<' not supported">>)
                 ELSE PyList([r \in 1..Len(q) |->
                                 q[CHOOSE i \in 1..Len(q) : Cardinality(before(i)) = r - 1]])

\* Lines 373-377.
profile_coach(coach) ==
    MkDict(<<<<"name", PyGet(coach, "name", EmptyStr)>>,
             <<"position", PyGet(coach, "position", EmptyStr)>>,
             <<"experience", PyGet(coach, "experience", EmptyStr)>>>>)

\* Lines 383-388.
profile_player(player) ==
    MkDict(<<<<"name", PyGet(player, "name", EmptyStr)>>,
             <<"position", PyGet(player, "position", EmptyStr)>>,
             <<"jersey_number", PyGet(player, "jersey_number", EmptyStr)>>,
             <<"depth", PyGet(player, "depth", PyInt(0))>>>>)

\* Lines 348-393.
_summarize_team_profile(profile_data) ==
    IF ~Truthy(profile_data) THEN EmptyDict
    ELSE Try(MkDict(<<
            <<"team_info",
              MkDict(<<<<"id", PyGet(profile_data, "id", EmptyStr)>>,
                       <<"name", PyGet(profile_data, "name", EmptyStr)>>,
                       <<"market", PyGet(profile_data, "market", EmptyStr)>>,
                       <<"alias", PyGet(profile_data, "alias", EmptyStr)>>,
                       <<"conference", PyGet(profile_data, "conference", EmptyStr)>>,
                       <<"division", PyGet(profile_data, "division", EmptyStr)>>>>)>>,
            <<"coaches",
              IF InHolds("coaches", profile_data)
              THEN ForEach(profile_coach, Slice(PyItem(profile_data, "coaches"), 3))
              ELSE EmptyList>>,
            <<"key_players",
              IF InHolds("players", profile_data)
              THEN ForEach(profile_player,
                           Slice(SortedByGet(PyItem(profile_data, "players"),
                                             "depth", PyInt(99), FALSE), 10))
              ELSE EmptyList>>>>),
         Summary("Team profile data available but could not be summarized"))

\* Lines 409-414.
injured_player(player) ==
    MkDict(<<<<"name", PyGet(player, "name", EmptyStr)>>,
             <<"position", PyGet(player, "position", EmptyStr)>>,
             <<"status", PyGet(player, "status", EmptyStr)>>,
             <<"injury", PyGet(player, "injury", EmptyStr)>>>>)

\* Lines 395-419.  The reads of name and alias (lines 401-402) are outside the try.
_summarize_team_injuries(injuries_data) ==
    IF ~Truthy(injuries_data) THEN EmptyDict
    ELSE LET head == MkDict(<<<<"team", PyGet(injuries_data, "name", EmptyStr)>>,
                              <<"alias", PyGet(injuries_data, "alias", EmptyStr)>>>>)
         IN  IF IsExc(head) THEN head
             ELSE Try(MkDict(head.kv \o <<
                        <<"injured_players",
                          IF InHolds("players", injuries_data)
                          THEN ForEach(injured_player,
                                       Slice(PyItem(injuries_data, "players"), 10))
                          ELSE EmptyList>>>>),
                      Summary("Team injuries data available but could not be summarized"))

\* Lines 430-452.
game_summary(game) ==
    IF ~IsDict(game) THEN AttributeError(game, "get")
    ELSE LET home_team == PyGet(game, "home_team", EmptyStr)
             away_team == PyGet(game, "away_team", EmptyStr)
             home_team_info == IF ~Truthy(home_team)
                               THEN PyGet(PyGet(game, "home", EmptyDict), "alias", EmptyStr)
                               ELSE home_team
             away_team_info == IF IsExc(home_team_info) THEN home_team_info
                               ELSE IF ~Truthy(away_team)
                               THEN PyGet(PyGet(game, "away", EmptyDict), "alias", EmptyStr)
                               ELSE away_team
         IN  IF IsExc(away_team_info) THEN away_team_info
             ELSE MkDict(<<
                <<"gameId", PyGet(game, "gameId", PyGet(game, "id", EmptyStr))>>,
                <<"week", PyGet(game, "week", EmptyStr)>>,
                <<"game_date", PyGet(game, "game_date", PyGet(game, "scheduled", EmptyStr))>>,
                <<"home_team", home_team_info>>,
                <<"away_team", away_team_info>>,
                <<"tv_station", PyGet(game, "tv_station", EmptyStr)>>,
                <<"home_score", PyGet(game, "home_score", PyGet(game, "home_points", PyInt(0)))>>,
                <<"away_score", PyGet(game, "away_score", PyGet(game, "away_points", PyInt(0)))>>,
                <<"status", PyGet(game, "status", PyStr("Scheduled"))>>>>)

\* Lines 421-457.
_summarize_games(games_data) ==
    IF ~Truthy(games_data) THEN EmptyList
    ELSE Try(ForEach(game_summary, Slice(games_data, 10)),
             PyList(<<Summary("Games data available but could not be summarized")>>))

\* Lines 486-494.
standings_team(team) ==
    MkDict(<<<<"name", PyGet(team, "name", EmptyStr)>>,
             <<"alias", PyGet(team, "alias", EmptyStr)>>,
             <<"wins", PyGet(team, "wins", PyInt(0))>>,
             <<"losses", PyGet(team, "losses", PyInt(0))>>,
             <<"ties", PyGet(team, "ties", PyInt(0))>>,
             <<"win_pct", PyGet(team, "win_pct", PyInt(0))>>,
             <<"points_for", PyGet(team, "points_for", PyInt(0))>>,
             <<"points_against", PyGet(team, "points_against", PyInt(0))>>>>)

\* Lines 479-496.
standings_division(division) ==
    MkDict(<<<<"name", PyGet(division, "name", EmptyStr)>>,
             <<"alias", PyGet(division, "alias", EmptyStr)>>,
             <<"teams", ForEach(standings_team, PyGet(division, "teams", EmptyList))>>>>)

\* Lines 472-498.
standings_conference(conference) ==
    MkDict(<<<<"name", PyGet(conference, "name", EmptyStr)>>,
             <<"alias", PyGet(conference, "alias", EmptyStr)>>,
             <<"divisions", ForEach(standings_division,
                                    PyGet(conference, "divisions", EmptyList))>>>>)

\* Lines 459-503.  The read of the season's year (line 465) is outside the try.
_summarize_standings_data(standings_data) ==
    IF ~Truthy(standings_data) THEN EmptyDict
    ELSE LET season == PyGet(PyGet(standings_data, "season", EmptyDict), "year", EmptyStr)
         IN  IF IsExc(season) THEN season
             ELSE Try(MkDict(<<<<"season", season>>,
                               <<"conferences",
                                 IF InHolds("conferences", standings_data)
                                 THEN ForEach(standings_conference,
                                              PyItem(standings_data, "conferences"))
                                 ELSE EmptyList>>>>),
                      Summary("Standings data available but could not be summarized"))

\* Lines 528-541.
schedule_game(game) ==
    IF IsDict(game)
    THEN MkDict(<<
        <<"gameId", PyGet(game, "gameId", PyGet(game, "id", EmptyStr))>>,
        <<"season", PyGet(game, "season", EmptyStr)>>,
        <<"week", PyGet(game, "week", EmptyStr)>>,
        <<"game_date", PyGet(game, "game_date", PyGet(game, "scheduled", EmptyStr))>>,
        <<"home_team", PyGet(game, "home_team",
                             PyGet(PyGet(game, "home", EmptyDict), "alias", EmptyStr))>>,
        <<"away_team", PyGet(game, "away_team",
                             PyGet(PyGet(game, "away", EmptyDict), "alias", EmptyStr))>>,
        <<"home_score", PyGet(game, "home_score", PyGet(game, "home_points", PyNone))>>,
        <<"away_score", PyGet(game, "away_score", PyGet(game, "away_points", PyNone))>>,
        <<"tv_station", PyGet(game, "tv_station", EmptyStr)>>,
        <<"winner", PyGet(game, "winner", PyNone)>>>>)
    ELSE Skip

\* Lines 505-546.
_summarize_schedule_data(data) ==
    Try(IF IsList(data)
        THEN MkDict(<<<<"year", PyStr("current")>>, <<"type", PyStr("regular")>>,
                      <<"games", ForEach(schedule_game, Slice(data, 10))>>>>)
        ELSE MkDict(<<<<"year", PyGet(data, "year", EmptyStr)>>,
                      <<"type", PyGet(data, "type", EmptyStr)>>,
                      <<"games", ForEach(schedule_game,
                                         Slice(PyGet(data, "games", EmptyList), 10))>>>>),
        Summary("Schedule data available but could not be summarized"))

\* Mutant of injury_player: the status is read with player["status"].
injury_player_strict(player) ==
    MkDict(<<<<"name", PyGet(player, "name", EmptyStr)>>,
             <<"position", PyGet(player, "position", EmptyStr)>>,
             <<"status", PyItem(player, "status")>>,
             <<"injury", PyGet(player, "injury", EmptyStr)>>>>)

\* Lines 576-582.
injury_player(player) ==
    MkDict(<<<<"name", PyGet(player, "name", EmptyStr)>>,
             <<"position", PyGet(player, "position", EmptyStr)>>,
             <<"status", PyGet(player, "status", EmptyStr)>>,
             <<"injury", PyGet(player, "injury", EmptyStr)>>>>)

\* Lines 567-584.
injury_team(team) ==
    MkDict(<<<<"name", PyGet(team, "name", EmptyStr)>>,
             <<"alias", PyGet(team, "alias", EmptyStr)>>,
             <<"injuries", ForEach(injury_player,
                                   Slice(PyGet(team, "players", EmptyList), 10))>>>>)

\* Lines 548-589.
_summarize_injury_data(data) ==
    Try(IF IsList(data)
        THEN MkDict(<<<<"week", PyStr("current")>>,
                      <<"teams_with_injuries", ForEach(injury_team, Slice(data, 10))>>>>)
        ELSE MkDict(<<<<"week", PyGet(data, "week", EmptyStr)>>,
                      <<"teams_with_injuries",
                        ForEach(injury_team, Slice(PyGet(data, "teams", EmptyList), 10))>>>>),
        Summary("Injury data available but could not be summarized"))

\* if key in stats: key_stats[key] = {...}: no pair, the pair, or the exception.
StatGroup(stats, key, pairs) ==
    IF InHolds(key, stats)
    THEN LET group == PyItem(stats, key)
         IN  IF IsExc(group) THEN <<<<key, group>>>>
             ELSE <<<<key, MkDict([i \in 1..Len(pairs) |->
                                     <<pairs[i][1], PyGet(group, pairs[i][2], pairs[i][3])>>])>>>>
    ELSE <<>>

\* Lines 614-659.
_extract_key_stats(stats) ==
    IF IsExc(stats) THEN stats
    ELSE IF ~Truthy(stats) THEN EmptyDict
    ELSE IF InRaises(stats) THEN TypeError(stats, "is not iterable")
    ELSE MkDict(
        StatGroup(stats, "team",
                  <<<<"first_downs", "first_downs", PyInt(0)>>,
                    <<"total_yards", "total_yards", PyInt(0)>>,
                    <<"penalties", "penalties", PyInt(0)>>,
                    <<"penalty_yards", "penalty_yards", PyInt(0)>>,
                    <<"turnovers", "turnovers", PyInt(0)>>,
                    <<"time_of_possession", "possession_time", EmptyStr>>>>)
        \o StatGroup(stats, "passing",
                  <<<<"completions", "completions", PyInt(0)>>,
                    <<"attempts", "attempts", PyInt(0)>>,
                    <<"yards", "yards", PyInt(0)>>,
                    <<"touchdowns", "touchdowns", PyInt(0)>>,
                    <<"interceptions", "interceptions", PyInt(0)>>>>)
        \o StatGroup(stats, "rushing",
                  <<<<"attempts", "attempts", PyInt(0)>>,
                    <<"yards", "yards", PyInt(0)>>,
                    <<"touchdowns", "touchdowns", PyInt(0)>>>>)
        \o StatGroup(stats, "receiving",
                  <<<<"receptions", "receptions", PyInt(0)>>,
                    <<"yards", "yards", PyInt(0)>>,
                    <<"touchdowns", "touchdowns", PyInt(0)>>>>))

\* Lines 597-603 and 604-610: one side of the boxscore.
boxscore_side(data, side, points) ==
    MkDict(<<
        <<"name", PyGet(PyGet(data, side, EmptyDict), "name", EmptyStr)>>,
        <<"alias", PyGet(PyGet(data, side, EmptyDict), "alias", EmptyStr)>>,
        <<"points", PyGet(data, points, PyInt(0))>>,
        <<"scoring", PyGet(PyGet(data, side, EmptyDict), "scoring", EmptyList)>>,
        <<"statistics",
          _extract_key_stats(PyGet(PyGet(data, side, EmptyDict), "statistics", EmptyDict))>>>>)

\* Lines 591-612.  No try: whatever the reads raise leaves the reducer.
_summarize_boxscore(data) ==
    MkDict(<<<<"id", PyGet(data, "id", EmptyStr)>>,
             <<"status", PyGet(data, "status", EmptyStr)>>,
             <<"scheduled", PyGet(data, "scheduled", EmptyStr)>>,
             <<"home", boxscore_side(data, "home", "home_points")>>,
             <<"away", boxscore_side(data, "away", "away_points")>>>>)

\* Lines 708-736: a record of a flat ranking list; a record that is no dict is
\* skipped (lines 704-706).
rankings_list_player(player) ==
    IF ~IsDict(player) THEN Skip
    ELSE LET player_summary == PyDict(<<
                <<"id", Get(player, "player_id", EmptyStr)>>,
                <<"name", Get(player, "display_name", Get(player, "name", EmptyStr))>>,
                <<"team", Get(player, "team", EmptyStr)>>,
                <<"position", Get(player, "position", EmptyStr)>>,
                <<"rank", Get(player, "rank", Get(player, "position_rank", PyInt(0)))>>,
                <<"bye_week", Get(player, "bye_week", EmptyStr)>>>>)
             with_points ==
                IF Has(player, "standard_points")
                THEN SetItem(player_summary, "projected_points", PyDict(<<
                        <<"standard", Get(player, "standard_points", PyInt(0))>>,
                        <<"ppr", Get(player, "ppr_points", PyInt(0))>>,
                        <<"half_ppr", Get(player, "half_ppr_points", PyInt(0))>>>>))
                ELSE player_summary
         IN  CopyIfPresent(
                CopyIfPresent(
                    CopyIfPresent(with_points, player, "proj_pts", "projected_points"),
                    player, "adp", "adp"),
                player, "injury_risk", "injury_risk")

\* Lines 756-770: a record of a position's list.
rankings_position_player(player) ==
    IF IsDict(player)
    THEN CopyIfPresent(
            PyDict(<<
                <<"name", Get(player, "display_name", Get(player, "name", EmptyStr))>>,
                <<"team", Get(player, "team", EmptyStr)>>,
                <<"rank", Get(player, "rank", Get(player, "position_rank", PyInt(0)))>>>>),
            player, "proj_pts", "projected_points")
    ELSE PyDict(<<<<"error", PyStr("Unexpected player data format")>>>>)

RANKING_POSITIONS == {"QB", "RB", "WR", "TE", "K", "DEF"}

\* Lines 743-770: the dict `summarized` that Case 1 builds: each position with a
\* non-empty list, mapped to its first 25 (QB) or 15 (others) records.
rankings_by_position(rankings_data) ==
    ForEachItem(LAMBDA position, players :
                    IF IsList(players) /\ Truthy(players)
                    THEN ForEach(rankings_position_player,
                                 Slice(players, IF position = "QB" THEN 25 ELSE 15))
                    ELSE Skip,
                rankings_data)

\* Lines 790-794: the first value that is a non-empty list whose first item is a
\* dict, or None.
first_record_list(rankings_data) ==
    LET ok(i) == LET value == rankings_data.kv[i][2]
                 IN  IsList(value) /\ Truthy(value) /\ IsDict(value.items[1])
        found == {i \in 1..Len(rankings_data.kv) : ok(i)}
    IN  IF found = {} THEN PyNone
        ELSE rankings_data.kv[CHOOSE i \in found : \A j \in found : i <= j][2]

\* Lines 681-801.  Case 1 (a position-keyed dict) and the 'players' branch of
\* Case 3 build `summarized` and reach the end of the function without a return
\* statement: the call returns None.
RECURSIVE _summarize_fantasy_rankings(_)
_summarize_fantasy_rankings(rankings_data) ==
    IF ~Truthy(rankings_data) THEN Summary("No rankings data available")
    ELSE TryWithError(
        IF IsList(rankings_data)
        THEN ForEach(rankings_list_player, Slice(rankings_data, 25))
        ELSE IF IsDict(rankings_data)
        THEN IF \E pos \in RANKING_POSITIONS : Has(rankings_data, pos)
             THEN LET summarized == rankings_by_position(rankings_data)
                  IN  IF IsExc(summarized) THEN summarized ELSE PyNone
             ELSE IF /\ Has(rankings_data, "data")
                     /\ (IsList(Item(rankings_data, "data")) \/ IsDict(Item(rankings_data, "data")))
             THEN _summarize_fantasy_rankings(Item(rankings_data, "data"))
             ELSE LET metadata == ScalarItems(rankings_data, {"players", "data"}, TRUE)
                  IN  IF Has(rankings_data, "players") /\ IsList(Item(rankings_data, "players"))
                      THEN LET players_sample == _summarize_fantasy_rankings(
                                                     Slice(Item(rankings_data, "players"), 30))
                           IN  IF IsExc(players_sample) THEN players_sample ELSE PyNone
                      ELSE LET value == first_record_list(rankings_data)
                           IN  MkDict(<<<<"metadata", metadata>>,
                                        <<"players_sample",
                                          IF IsNone(value) THEN EmptyList
                                          ELSE _summarize_fantasy_rankings(Slice(value, 30))>>>>)
        ELSE Summary("Rankings data available but in unexpected format"),
        "Rankings data available but could not be summarized")

\* Line 821: the excerpt, cut to 200 characters and "..." when it is longer.
news_excerpt(excerpt) ==
    LET n == PyLenOf(excerpt)
    IN  IF IsExc(n) THEN n
        ELSE IF n.n > 200
        THEN (IF IsStr(excerpt) THEN PyText(Slice(excerpt, 200).text \o <<"...">>)
              ELSE IF IsList(excerpt)
              THEN Raised("TypeError", <<"can only concatenate list (not \"str\") to list">>)
              ELSE Slice(excerpt, 200))
        ELSE excerpt

\* Lines 814-824.
news_article(article) ==
    IF ~IsDict(article) THEN Skip
    ELSE MkDict(<<<<"headline", Get(article, "article_headline", EmptyStr)>>,
                  <<"date", Get(article, "article_date", EmptyStr)>>,
                  <<"author", Get(article, "article_author", EmptyStr)>>,
                  <<"excerpt", news_excerpt(Get(article, "article_excerpt", EmptyStr))>>,
                  <<"teams", Get(article, "teams", EmptyList)>>>>)

\* Lines 803-836.
_summarize_news_data(news_data) ==
    TryWithError(
        IF IsList(news_data) THEN ForEach(news_article, Slice(news_data, 5))
        ELSE IF IsDict(news_data)
        THEN MkDict(<<<<"summary", PyStr("News data available")>>,
                      <<"count", IF Has(news_data, "articles")
                                 THEN PyLenOf(Get(news_data, "articles", EmptyList))
                                 ELSE PyLenOf(news_data)>>>>)
        ELSE Summary("News data available but in unexpected format"),
        "News data available but could not be summarized")

ROS_STATS ==
    <<"passing_yards", "passing_touchdowns", "rushing_yards", "rushing_touchdowns",
      "receiving_yards", "receiving_touchdowns">>

\* Lines 882-884: the stats of the list that the player has, added in order.
RECURSIVE ros_with_stats(_, _, _)
ros_with_stats(player_summary, player, stats) ==
    IF stats = <<>> THEN player_summary
    ELSE ros_with_stats(CopyIfPresent(player_summary, player, Head(stats), Head(stats)),
                        player, Tail(stats))

\* Mutant of ros_player: the projected points are left out.
ros_player_without_points(player, position) ==
    IF ~IsDict(player) THEN Skip
    ELSE ros_with_stats(
            PyDict(<<<<"name", Get(player, "name", EmptyStr)>>,
                     <<"team", Get(player, "team", EmptyStr)>>,
                     <<"position", Get(player, "position", PyStr(position))>>>>),
            player, ROS_STATS)

\* Lines 870-886: a record of a position's projections; others are skipped.
ros_player(player, position) ==
    IF ~IsDict(player) THEN Skip
    ELSE ros_with_stats(
            CopyIfPresent(
                PyDict(<<<<"name", Get(player, "name", EmptyStr)>>,
                         <<"team", Get(player, "team", EmptyStr)>>,
                         <<"position", Get(player, "position", PyStr(position))>>>>),
                player, "proj_pts", "projected_points"),
            player, ROS_STATS)

\* Lines 838-898.
_summarize_ros_projections(ros_data) ==
    IF ~Truthy(ros_data) THEN Summary("No ROS projections data available")
    ELSE TryWithError(
        IF IsList(ros_data) THEN _summarize_fantasy_rankings(ros_data)
        ELSE LET season == PyGet(ros_data, "season", EmptyStr)
             IN  IF IsExc(season) THEN season
                 ELSE IF /\ Has(ros_data, "projections")
                         /\ IsDict(Item(ros_data, "projections"))
                 THEN Update(
                        PyDict(<<<<"season", season>>,
                                 <<"metadata",
                                   ScalarItems(ros_data, {"projections", "season"}, FALSE)>>>>),
                        ForEachItem(LAMBDA position, players :
                                        IF IsList(players) /\ Truthy(players)
                                        THEN ForEach(LAMBDA player : ros_player(player, position),
                                                     Slice(players,
                                                           IF position = "QB" THEN 30 ELSE 20))
                                        ELSE Skip,
                                    Item(ros_data, "projections")))
                 ELSE _summarize_fantasy_rankings(ros_data),
        "ROS projections data available but could not be summarized")

\* Lines 914-922.
players_sample_player(player) ==
    IF ~IsDict(player) THEN Skip
    ELSE PyDict(<<<<"name", Get(player, "display_name", Get(player, "name", EmptyStr))>>,
                  <<"team", Get(player, "team", EmptyStr)>>,
                  <<"position", Get(player, "position", EmptyStr)>>,
                  <<"jersey_number", Get(player, "jersey", EmptyStr)>>,
                  <<"status", Get(player, "status", EmptyStr)>>>>)

\* Lines 900-933.
RECURSIVE _summarize_players_data(_)
_summarize_players_data(players_data) ==
    TryWithError(
        IF IsList(players_data)
        THEN MkDict(<<<<"players_count", PyInt(PyLen(players_data))>>,
                      <<"sample_players",
                        ForEach(players_sample_player, Slice(players_data, 20))>>>>)
        ELSE IF InRaises(players_data) THEN TypeError(players_data, "is not iterable")
        ELSE IF InHolds("players", players_data)
        THEN _summarize_players_data(PyItem(players_data, "players"))
        ELSE Summary("Players data available but in unexpected format"),
        "Players data available but could not be summarized")

\* Lines 967-971 (and 1001-1005, 1038-1042): the name of a player record, or the
\* str of anything else.
depth_player(player) ==
    IF IsDict(player) THEN Get(player, "name", EmptyStr) ELSE PyStrOf(player)

\* Lines 964-971 (and 998-1005, 1035-1042): every list of the dict, but those under
\* the excluded keys, cut to its first three players.
depth_positions(team, excluded) ==
    ForEachItem(LAMBDA key, value :
                    IF key \notin excluded /\ IsList(value)
                    THEN ForEach(depth_player, Slice(value, 3))
                    ELSE Skip,
                team)

\* Lines 952-973.  The identifier is lower-cased (line 959): one that is no str
\* raises.
depth_list_team(team) ==
    IF ~IsDict(team) THEN Skip
    ELSE LET ident == Get(team, "team", Get(team, "name", Get(team, "alias", EmptyStr)))
         IN  IF ~IsStr(ident) THEN AttributeError(ident, "lower")
             ELSE MkDict(<<<<"team", ident>>,
                           <<"positions",
                             depth_positions(team, {"team", "name", "alias", "id"})>>>>)

\* len(key) <= 3 and key.isupper(), for the keys of the inputs.
TeamAbbreviations == {"DET", "GB", "BUF", "QB", "RB", "WR", "TE", "K", "DEF"}
IsTeamAbbr(key) == key \in TeamAbbreviations
\* key.lower() in ["metadata", "status", "error"], for the keys of the inputs.
IsMetaKey(key) == key \in {"metadata", "status", "error"}

\* Lines 988-1008.
depth_abbr_team(team_abbr, team_depth) ==
    IF IsDict(team_depth)
    THEN MkDict(<<<<"team", PyStr(team_abbr)>>,
                  <<"positions", depth_positions(team_depth, {})>>>>)
    ELSE Skip

\* Lines 1028-1046: a dict value taken as one team, kept if it has positions.
depth_other_team(key, value) ==
    IF ~IsMetaKey(key) /\ IsDict(value)
    THEN LET positions == depth_positions(value, {})
         IN  IF Truthy(positions)
             THEN MkDict(<<<<"team", PyStr(key)>>, <<"positions", positions>>>>)
             ELSE Skip
    ELSE Skip

\* {"teams_count": len(teams), "teams": teams}, for the dict whose values are teams.
depth_counted(teams) ==
    IF IsExc(teams) THEN teams
    ELSE LET q == [i \in 1..Len(teams.kv) |-> teams.kv[i][2]]
         IN  PyDict(<<<<"teams_count", PyInt(Len(q))>>, <<"teams", PyList(q)>>>>)

\* Lines 1022-1027: the first value, in order, that is a non-empty list of dicts
\* under a key that is no metadata key; the loop returns its summary.  None if
\* there is none.
depth_first_team_list(depth_data) ==
    LET ok(i) == LET value == depth_data.kv[i][2]
                 IN  /\ ~IsMetaKey(depth_data.kv[i][1])
                     /\ IsList(value) /\ Truthy(value) /\ IsDict(value.items[1])
        found == {i \in 1..Len(depth_data.kv) : ok(i)}
    IN  IF found = {} THEN PyNone
        ELSE depth_data.kv[CHOOSE i \in found : \A j \in found : i <= j][2]

\* Lines 935-1058.
RECURSIVE _summarize_depth_charts(_)
_summarize_depth_charts(depth_data) ==
    TryWithError(
        IF IsList(depth_data)
        THEN MkDict(<<<<"teams_count", PyInt(PyLen(depth_data))>>,
                      <<"teams", ForEach(depth_list_team, Slice(depth_data, 5))>>>>)
        ELSE IF IsDict(depth_data)
        THEN IF \E i \in 1..Len(depth_data.kv) : IsTeamAbbr(depth_data.kv[i][1])
             THEN depth_counted(ForEachItem(depth_abbr_team, depth_data))
             ELSE IF Has(depth_data, "teams")
             THEN _summarize_depth_charts(Item(depth_data, "teams"))
             ELSE IF Has(depth_data, "charts")
             THEN _summarize_depth_charts(Item(depth_data, "charts"))
             ELSE IF ~IsNone(depth_first_team_list(depth_data))
             THEN _summarize_depth_charts(depth_first_team_list(depth_data))
             ELSE depth_counted(ForEachItem(depth_other_team, depth_data))
        ELSE PyDict(<<<<"summary", PyStr("Depth chart data available but in unexpected format")>>,
                      <<"debug_type", PyText(<<"<class '", TypeName(depth_data), "'>">>)>>>>),
        "Depth chart data available but could not be summarized")

\* Lines 1071-1075.
bye_week(week_data) ==
    IF ~IsDict(week_data) THEN Skip
    ELSE PyDict(<<<<"week", Get(week_data, "week", EmptyStr)>>,
                  <<"teams", Get(week_data, "teams", EmptyList)>>>>)

\* Lines 1060-1087.
RECURSIVE _summarize_bye_weeks(_)
_summarize_bye_weeks(bye_data) ==
    TryWithError(
        IF IsList(bye_data)
        THEN MkDict(<<<<"bye_weeks", ForEach(bye_week, bye_data)>>>>)
        ELSE IF IsDict(bye_data)
        THEN IF Has(bye_data, "weeks") THEN _summarize_bye_weeks(Item(bye_data, "weeks"))
             ELSE PyDict(<<<<"summary", PyStr("Bye weeks data available")>>,
                           <<"data", bye_data>>>>)
        ELSE Summary("Bye weeks data available but in unexpected format"),
        "Bye weeks data available but could not be summarized")

\* Lines 1103-1117: an add, a drop, or nothing.
add_drop_transaction(transaction, type) ==
    IF IsDict(transaction) /\ Get(transaction, "type", PyNone) = PyStr(type)
    THEN PyDict(<<<<"player", Get(transaction, "player", EmptyStr)>>,
                  <<"team", Get(transaction, "team", EmptyStr)>>,
                  <<"position", Get(transaction, "position", EmptyStr)>>,
                  <<"percentage", Get(transaction, "percentage", PyInt(0))>>>>)
    ELSE Skip

\* Lines 1089-1124.
_summarize_add_drops(add_drops_data) ==
    TryWithError(
        IF IsList(add_drops_data)
        THEN MkDict(<<
            <<"total_transactions", PyInt(PyLen(add_drops_data))>>,
            <<"top_adds", ForEach(LAMBDA x : add_drop_transaction(x, "add"),
                                  Slice(add_drops_data, 10))>>,
            <<"top_drops", ForEach(LAMBDA x : add_drop_transaction(x, "drop"),
                                   Slice(add_drops_data, 10))>>>>)
        ELSE Summary("Add/drops data available but in unexpected format"),
        "Add/drops data available but could not be summarized")

\* f"{game.get('away_team', '')} @ {game.get('home_team', '')}"
matchup(game) ==
    PyText(StrOf(Get(game, "away_team", EmptyStr)) \o <<" @ ">>
           \o StrOf(Get(game, "home_team", EmptyStr)))

\* Lines 1138-1145.
weather_forecast(game) ==
    IF ~IsDict(game) THEN Skip
    ELSE PyDict(<<<<"game", matchup(game)>>,
                  <<"temperature", Get(game, "temperature", EmptyStr)>>,
                  <<"conditions", Get(game, "conditions", EmptyStr)>>,
                  <<"wind", Get(game, "wind", EmptyStr)>>,
                  <<"precipitation", Get(game, "precipitation", EmptyStr)>>>>)

\* Lines 1126-1152.
_summarize_weather_data(weather_data) ==
    TryWithError(
        IF IsList(weather_data)
        THEN MkDict(<<<<"games_count", PyInt(PyLen(weather_data))>>,
                      <<"forecasts", ForEach(weather_forecast, Slice(weather_data, 5))>>>>)
        ELSE Summary("Weather data available but in unexpected format"),
        "Weather data available but could not be summarized")

\* Lines 1169-1177.
dfs_player(player) ==
    IF ~IsDict(player) THEN Skip
    ELSE PyDict(<<<<"player", Get(player, "name", EmptyStr)>>,
                  <<"team", Get(player, "team", EmptyStr)>>,
                  <<"position", Get(player, "position", EmptyStr)>>,
                  <<"salary", Get(player, "salary", PyInt(0))>>,
                  <<"projected_points", Get(player, "projected_points", PyInt(0))>>,
                  <<"value", Get(player, "value", PyInt(0))>>>>)

\* Lines 1154-1184.
_summarize_dfs_data(dfs_data) ==
    TryWithError(
        IF IsList(dfs_data)
        THEN MkDict(<<<<"players_count", PyInt(PyLen(dfs_data))>>,
                      <<"top_value_players",
                        ForEach(dfs_player,
                                Slice(SortedByGet(dfs_data, "value", PyInt(0), TRUE), 10))>>>>)
        ELSE Summary("DFS data available but in unexpected format"),
        "DFS data available but could not be summarized")

\* Lines 1198-1204.
dfs_slate(slate) ==
    IF ~IsDict(slate) THEN Skip
    ELSE MkDict(<<<<"slate_id", Get(slate, "slate_id", EmptyStr)>>,
                  <<"name", Get(slate, "name", EmptyStr)>>,
                  <<"start_time", Get(slate, "start_time", EmptyStr)>>,
                  <<"games_count", PyLenOf(Get(slate, "games", EmptyList))>>>>)

\* Lines 1186-1211.
_summarize_dfs_slates(slates_data) ==
    TryWithError(
        IF IsList(slates_data)
        THEN MkDict(<<<<"slates_count", PyInt(PyLen(slates_data))>>,
                      <<"available_slates", ForEach(dfs_slate, slates_data)>>>>)
        ELSE Summary("DFS slates data available but in unexpected format"),
        "DFS slates data available but could not be summarized")

\* Lines 1225-1231.
nfl_pick(game) ==
    IF ~IsDict(game) THEN Skip
    ELSE MkDict(<<<<"game", matchup(game)>>,
                  <<"spread", Get(game, "spread", EmptyStr)>>,
                  <<"over_under", Get(game, "over_under", EmptyStr)>>,
                  <<"expert_picks", Slice(Get(game, "expert_picks", EmptyList), 3)>>>>)

\* Lines 1213-1238.
_summarize_nfl_picks(picks_data) ==
    TryWithError(
        IF IsList(picks_data)
        THEN MkDict(<<<<"games_count", PyInt(PyLen(picks_data))>>,
                      <<"picks", ForEach(nfl_pick, picks_data)>>>>)
        ELSE Summary("NFL picks data available but in unexpected format"),
        "NFL picks data available but could not be summarized")

\* Lines 1269-1294: the record of rank `rank` of a position.
draft_projection_player(rank, player, position) ==
    LET player_summary == <<
            <<"rank", PyInt(rank)>>,
            <<"name", Get(player, "name", EmptyStr)>>,
            <<"team", Get(player, "team", EmptyStr)>>,
            <<"position", Get(player, "position", PyStr(position))>>,
            <<"player_id", Get(player, "playerId", EmptyStr)>>>>
    IN  IF position = "QB"
        THEN PyDict(player_summary \o <<<<"projections", PyDict(<<
                <<"passing_yards", Get(player, "passing_yards", EmptyStr)>>,
                <<"passing_touchdowns", Get(player, "passing_touchdowns", EmptyStr)>>,
                <<"rushing_yards", Get(player, "rushing_yards", EmptyStr)>>,
                <<"rushing_touchdowns", Get(player, "rushing_touchdowns", EmptyStr)>>>>)>>>>)
        ELSE IF position \in {"RB", "WR", "TE"}
        THEN PyDict(player_summary \o <<<<"projections", PyDict(<<
                <<"rushing_yards", Get(player, "rushing_yards", EmptyStr)>>,
                <<"rushing_touchdowns", Get(player, "rushing_touchdowns", EmptyStr)>>,
                <<"receiving_yards", Get(player, "receiving_yards", EmptyStr)>>,
                <<"receiving_touchdowns", Get(player, "receiving_touchdowns", EmptyStr)>>,
                <<"receptions", Get(player, "receptions", EmptyStr)>>>>)>>>>)
        ELSE PyDict(player_summary)

\* Lines 1262-1299: a position with a non-empty list: its size and first 15 records.
draft_projection_position(position, players) ==
    IF IsList(players) /\ Truthy(players)
    THEN LET top_players == Take(players.items, 15)
         IN  PyDict(<<
                <<"count", PyInt(Len(players.items))>>,
                <<"top_players",
                  PyList(Kept([i \in 1..Len(top_players) |->
                                  IF IsDict(top_players[i])
                                  THEN draft_projection_player(i, top_players[i], position)
                                  ELSE Skip]))>>>>)
    ELSE Skip

\* Lines 1240-1308.
_summarize_draft_projections(projections_data) ==
    TryWithError(
        IF ~Truthy(projections_data) THEN Summary("No draft projections data available")
        ELSE IF InRaises(projections_data) THEN TypeError(projections_data, "is not iterable")
        ELSE IF InHolds("projections", projections_data)
        THEN LET projections == PyItem(projections_data, "projections")
             IN  IF IsExc(projections) THEN projections
                 ELSE MkDict(<<<<"season", PyGet(projections_data, "season", PyStr("Unknown"))>>,
                               <<"positions",
                                 ForEachItem(draft_projection_position, projections)>>>>)
        ELSE _summarize_fantasy_rankings(projections_data),
        "Draft projections data available but could not be summarized")

-----------------------------------------------------------------------------
(***************************************************************************)
(* LLMService._summarize_context_data: the dispatch of the categories.     *)
(***************************************************************************)
\* Lines 151-273, in order: the key read in the input, the key written in the
\* output, and the reducer.  A map category applies its reducer to every value of a
\* dict keyed by team code.
DISPATCH == <<
    <<"league", "league_structure", "league_structure">>,
    <<"standings", "standings", "standings_data">>,
    <<"schedule", "schedule", "schedule_data">>,
    <<"team_profiles", "team_profiles", "map_team_profile">>,
    <<"injuries", "injuries", "injury_data">>,
    <<"team_injuries", "team_injuries", "map_team_injuries">>,
    <<"relevant_games", "relevant_games", "games">>,
    <<"team_games", "team_games", "map_games">>,
    <<"boxscore", "boxscore", "boxscore">>,
    <<"draft_rankings", "draft_rankings", "fantasy_rankings">>,
    <<"weekly_rankings", "weekly_rankings", "fantasy_rankings">>,
    <<"ros_projections", "ros_projections", "ros_projections">>,
    <<"news", "news", "news_data">>,
    <<"adp", "adp", "fantasy_rankings">>,
    <<"player_tiers", "player_tiers", "fantasy_rankings">>,
    <<"auction_values", "auction_values", "fantasy_rankings">>,
    <<"best_ball", "best_ball", "fantasy_rankings">>,
    <<"dynasty", "dynasty", "fantasy_rankings">>,
    <<"fantasy_leaders", "fantasy_leaders", "fantasy_rankings">>,
    <<"players", "players", "players_data">>,
    <<"depth", "depth", "depth_charts">>,
    <<"depth_charts", "depth", "depth_charts">>,
    <<"weekly_projections", "weekly_projections", "fantasy_rankings">>,
    <<"defense_rankings", "defense_rankings", "fantasy_rankings">>,
    <<"bye_weeks", "bye_weeks", "bye_weeks">>,
    <<"add_drops", "add_drops", "add_drops">>,
    <<"weather", "weather", "weather_data">>,
    <<"draft_projections", "draft_projections", "draft_projections">>,
    <<"dfs", "dfs", "dfs_data">>,
    <<"dfs_slates", "dfs_slates", "dfs_slates">>,
    <<"idp_draft", "idp_draft", "fantasy_rankings">>,
    <<"idp_weekly", "idp_weekly", "fantasy_rankings">>,
    <<"nfl_picks", "nfl_picks", "nfl_picks">>>>

CategoryKeys == {DISPATCH[i][1] : i \in 1..Len(DISPATCH)}

\* The right-hand side of the assignment of one category.
Reduce(reducer, value) ==
    CASE reducer = "league_structure" -> _summarize_league_structure(value)
      [] reducer = "standings_data" -> _summarize_standings_data(value)
      [] reducer = "schedule_data" -> _summarize_schedule_data(value)
      [] reducer = "map_team_profile" ->
            ForEachItem(LAMBDA team_code, profile : _summarize_team_profile(profile), value)
      [] reducer = "injury_data" -> _summarize_injury_data(value)
      [] reducer = "map_team_injuries" ->
            ForEachItem(LAMBDA team_code, injuries : _summarize_team_injuries(injuries), value)
      [] reducer = "games" -> _summarize_games(value)
      [] reducer = "map_games" ->
            ForEachItem(LAMBDA team_code, games : _summarize_games(games), value)
      [] reducer = "boxscore" -> _summarize_boxscore(value)
      [] reducer = "fantasy_rankings" -> _summarize_fantasy_rankings(value)
      [] reducer = "ros_projections" -> _summarize_ros_projections(value)
      [] reducer = "news_data" -> _summarize_news_data(value)
      [] reducer = "players_data" -> _summarize_players_data(value)
      [] reducer = "depth_charts" -> _summarize_depth_charts(value)
      [] reducer = "bye_weeks" -> _summarize_bye_weeks(value)
      [] reducer = "add_drops" -> _summarize_add_drops(value)
      [] reducer = "weather_data" -> _summarize_weather_data(value)
      [] reducer = "draft_projections" -> _summarize_draft_projections(value)
      [] reducer = "dfs_data" -> _summarize_dfs_data(value)
      [] reducer = "dfs_slates" -> _summarize_dfs_slates(value)
      [] reducer = "nfl_picks" -> _summarize_nfl_picks(value)

\* The rows of DISPATCH whose branch is taken for the input: the key is present,
\* and 'depth_charts' is read only when 'depth' is absent (lines 226-229).
Dispatched(data) ==
    SelectSeq(DISPATCH, LAMBDA row : /\ Has(data, row[1])
                                     /\ ~(row[1] = "depth_charts" /\ Has(data, "depth")))

\* Lines 144-274: the body of the try, which yields the summary or the first
\* exception raised by a reducer.
context_summary(data) ==
    LET rows == Dispatched(data)
        vals == [i \in 1..Len(rows) |-> Reduce(rows[i][3], Item(data, rows[i][1]))]
    IN  IF HasExc(vals) THEN FirstExc(vals)
        ELSE PyDict(<<<<"query_type", Get(data, "query_type", PyStr("unknown"))>>,
                      <<"metadata", Get(data, "metadata", EmptyDict)>>>>
                    \o [i \in 1..Len(rows) |-> <<rows[i][2], vals[i]>>])

\* Mutant of _summarize_context_data: no try/except around the dispatch.
_summarize_context_data_unguarded(data) ==
    IF ~IsDict(data) THEN AttributeError(data, "get") ELSE context_summary(data)

\* Lines 139-282.  One try/except encloses the whole dispatch: whichever reducer
\* raises, the value returned is the one stand-in of lines 281-282.
_summarize_context_data(data) ==
    IF ~IsDict(data) THEN AttributeError(data, "get")
    ELSE TryWithError(context_summary(data),
                      "Data available but could not be summarized due to an error")

-----------------------------------------------------------------------------
(***************************************************************************)
(* The inputs of the summarizer and of the ranking reducer.                *)
(***************************************************************************)
\* A record of an upstream list, with the fields the reducers read.
Rec(i) ==
    PyDict(<<<<"player_id", PyInt(i)>>,
             <<"name", PyText(<<"p", ToString(i)>>)>>,
             <<"team", PyStr("DET")>>,
             <<"position", PyStr("QB")>>,
             <<"rank", PyInt(i)>>,
             <<"home_team", PyStr("DET")>>,
             <<"away_team", PyStr("GB")>>,
             <<"type", PyStr("add")>>,
             <<"value", PyInt(i)>>>>)

\* The first n records.
Recs(n) == [i \in 1..n |-> Rec(i)]

\* (a) A well-formed flat list.
FlatList == PyList(Recs(2))

\* (b) Well-formed sub-grouped objects: by position, by team code, and the nested
\* shapes of the standings, the projections and the boxscore.
ByPosition == PyDict(<<<<"QB", PyList(Recs(2))>>, <<"RB", PyList(Recs(1))>>>>)
ByTeam == PyDict(<<<<"DET", ByPosition>>>>)
ByTeamList == PyDict(<<<<"DET", PyList(Recs(2))>>>>)
TeamProfile ==
    PyDict(<<<<"id", PyInt(1)>>, <<"name", PyStr("Lions")>>,
             <<"coaches", PyList(Recs(1))>>, <<"players", PyList(Recs(2))>>>>)
Projections == PyDict(<<<<"season", PyInt(2025)>>, <<"projections", ByPosition>>>>)
Boxscore ==
    PyDict(<<<<"id", PyInt(7)>>,
             <<"home", PyDict(<<<<"name", PyStr("Lions")>>,
                                <<"statistics",
                                  PyDict(<<<<"team", PyDict(<<<<"first_downs", PyInt(20)>>>>)>>>>)>>>>)>>,
             <<"home_points", PyInt(21)>>, <<"away_points", PyInt(17)>>>>)
GroupedValues ==
    {ByPosition, ByTeam, ByTeamList, PyDict(<<<<"DET", TeamProfile>>>>), TeamProfile,
     Projections, Boxscore, StandingsPayload}

\* (c) Empty values.
EmptyValues == {PyNone, EmptyList, EmptyDict, EmptyStr}

\* (d) Structurally invalid values: a bare string, a bare number.
BareString == PyText(<<"o", "o", "p", "s">>)
InvalidValues == {BareString, PyInt(42)}

\* Objects of the right type whose inside is not what the reducer reads.
MalformedValues ==
    {PyDict(<<<<"season", PyInt(2024)>>, <<"conferences", EmptyList>>>>),
     PyDict(<<<<"conferences", BareString>>, <<"games", BareString>>,
              <<"teams", BareString>>>>),
     PyDict(<<<<"DET", BareString>>>>),
     PyDict(<<<<"data", ByPosition>>>>),
     PyDict(<<<<"players", PyList(Recs(1))>>, <<"source", PyStr("x")>>>>),
     PyList(<<BareString, PyInt(1)>>)}

CategoryValues ==
    {FlatList} \cup GroupedValues \cup EmptyValues \cup InvalidValues \cup MalformedValues
\* The values given to the categories of a context of two.
PairValues ==
    {FlatList, ByPosition, BareString,
     PyDict(<<<<"season", PyInt(2024)>>, <<"conferences", EmptyList>>>>)}

ContextHead ==
    <<<<"query_type", PyStr("t")>>, <<"metadata", PyDict(<<<<"week", PyInt(1)>>>>)>>>>

\* The contexts: one category, with or without query_type and metadata, or two
\* categories with them.
Contexts ==
    {PyDict(head \o <<<<DISPATCH[i][1], v>>>>) :
        head \in {<<>>, ContextHead}, i \in 1..Len(DISPATCH), v \in CategoryValues}
    \cup {PyDict(ContextHead \o <<<<DISPATCH[ij[1]][1], vw[1]>>, <<DISPATCH[ij[2]][1], vw[2]>>>>) :
            ij \in {x \in (1..Len(DISPATCH)) \X (1..Len(DISPATCH)) : x[1] < x[2]},
            vw \in PairValues \X PairValues}

SummInit ==
    /\ s_in \in Contexts
    /\ s_pc = "ready"
    /\ s_out = PyNone

\* One call of _summarize_context_data.
Summarize ==
    /\ s_pc = "ready"
    /\ s_out' = _summarize_context_data(s_in)
    /\ s_pc' = "done"
    /\ UNCHANGED s_in
    /\ UNCHANGED notSumm

MaxRecs == 26     \* records in one list of a rankings payload

\* The payloads of the ranking reducer: a flat list, a position-keyed dict, either
\* under a 'data' key, and a dict with a 'players' list.
RankInputs ==
    {PyList(Recs(n)) : n \in 0..MaxRecs}
    \cup {PyDict(<<<<"QB", PyList(Recs(n))>>, <<"RB", PyList(Recs(m))>>>>) :
            n \in 0..MaxRecs, m \in {0, 1, 15, MaxRecs}}
    \cup {PyDict(<<<<"data", PyList(Recs(n))>>>>) : n \in {1, MaxRecs}}
    \cup {PyDict(<<<<"source", PyStr("x")>>, <<"players", PyList(Recs(n))>>>>) :
            n \in {1, MaxRecs}}
    \cup {PyDict(<<<<"source", PyStr("x")>>, <<"rows", PyList(Recs(n))>>>>) :
            n \in {1, MaxRecs}}
    \cup InvalidValues \cup EmptyValues

RankInit ==
    /\ r_in \in RankInputs
    /\ r_pc = "ready"
    /\ r_out = PyNone

\* One call of _summarize_fantasy_rankings.
Rank ==
    /\ r_pc = "ready"
    /\ r_out' = _summarize_fantasy_rankings(r_in)
    /\ r_pc' = "done"
    /\ UNCHANGED r_in
    /\ UNCHANGED notRank

-----------------------------------------------------------------------------
(***************************************************************************)
(* Claims about the summarizer (specification SpecSumm) and the ranking    *)
(* reducer (specification SpecRank).                                       *)
(***************************************************************************)
\* An object carrying a 'summary' message.
CarriesSummary(v) == IsDict(v) /\ Has(v, "summary")

\* The entry is a stand-in: an object with a 'summary' message, or a list that
\* holds one (the form the games reducer gives it).
IsStandIn(v) ==
    \/ CarriesSummary(v)
    \/ IsList(v) /\ \E i \in 1..Len(v.items) : CarriesSummary(v.items[i])

\* The reducer of row `row` raises on the value the input gives its category.
ReducerRaises(row, data) == IsExc(Reduce(row[3], Item(data, row[1])))

\* C8 as stated: if the reducer of one category raises, only that category's entry
\* is replaced by a stand-in with a 'summary' message; every other category of the
\* input is still present in the output, together with query_type and metadata.
C8_OnlyRaisingCategoryReplaced ==
    s_pc = "done" =>
        LET rows == Dispatched(s_in)
        IN  \A i \in 1..Len(rows) :
                ReducerRaises(rows[i], s_in) =>
                    /\ IsDict(s_out)
                    /\ Has(s_out, "query_type") /\ Has(s_out, "metadata")
                    /\ Has(s_out, rows[i][2]) /\ IsStandIn(Item(s_out, rows[i][2]))
                    /\ \A j \in 1..Len(rows) : Has(s_out, rows[j][2])

\* C9: whatever shape a category is fed (a flat list, a sub-grouped object, an empty
\* value, a structurally invalid value), _summarize_context_data returns a dict and
\* never raises; and a category fed a structurally invalid value (a bare string or
\* number) leaves a stand-in carrying a 'summary' message in the output: as the
\* category's entry, or as the whole output.
C9_NeverRaisesInvalidLeavesStandIn ==
    s_pc = "done" =>
        /\ ~IsExc(s_out)
        /\ IsDict(s_out)
        /\ LET rows == Dispatched(s_in)
           IN  \A i \in 1..Len(rows) :
                   Item(s_in, rows[i][1]) \in InvalidValues =>
                       \/ CarriesSummary(s_out)
                       \/ Has(s_out, rows[i][2]) /\ IsStandIn(Item(s_out, rows[i][2]))

\* C9 witness: of two categories, one was fed a bare string and its entry is a
\* stand-in, and the other, fed a list, was summarized next to it.
C9_Witness ==
    /\ s_pc = "done"
    /\ Has(s_in, "schedule") /\ Item(s_in, "schedule") = BareString
    /\ Has(s_in, "news") /\ Item(s_in, "news") = FlatList
    /\ Has(s_out, "schedule") /\ CarriesSummary(Item(s_out, "schedule"))
    /\ Has(s_out, "news") /\ IsList(Item(s_out, "news"))
    /\ Len(Item(s_out, "news").items) = 2

\* The expected summary of one position's list: its first min(n, cap) records, in
\* received order.
ExpectedPosition(position, players) ==
    PyList([i \in 1..Min(Len(players.items), IF position = "QB" THEN 25 ELSE 15) |->
               rankings_position_player(players.items[i])])

\* C10 as stated: given a position-keyed object the ranking reducer returns an
\* object that maps each position with a non-empty list to the first min(n, cap) of
\* its records in received order (cap 25 for QB, 15 for the others), just as a flat
\* list of n records yields its first min(n, 25) records.
C10_BothShapesBounded ==
    r_pc = "done" =>
        /\ IsList(r_in) /\ Truthy(r_in) =>
              /\ IsList(r_out)
              /\ Len(r_out.items) = Min(Len(r_in.items), 25)
              /\ \A i \in 1..Len(r_out.items) :
                    r_out.items[i] = rankings_list_player(r_in.items[i])
        /\ IsDict(r_in) /\ (\E pos \in RANKING_POSITIONS : Has(r_in, pos)) =>
              /\ IsDict(r_out)
              /\ \A k \in 1..Len(r_in.kv) :
                    LET position == r_in.kv[k][1]
                        players == r_in.kv[k][2]
                    IN  IsList(players) /\ Truthy(players) =>
                            /\ Has(r_out, position)
                            /\ Item(r_out, position) = ExpectedPosition(position, players)

\* C12: a flat list of n well-formed records is summarized to exactly min(n, 25)
\* records, the k-th of them derived from the k-th input record (same id, name,
\* team, position and rank), and no record past the 25th appears.  (For n = 0 the
\* payload is empty and the summary is the no-data stand-in, which holds no record.)
C12_FlatListFirst25InOrder ==
    (r_pc = "done" /\ IsList(r_in)) =>
        LET n == Len(r_in.items)
        IN  IF n = 0 THEN r_out = Summary("No rankings data available")
            ELSE /\ IsList(r_out)
                 /\ Len(r_out.items) = Min(n, 25)
                 /\ \A k \in 1..Len(r_out.items) :
                       LET player == r_in.items[k]
                           summary == r_out.items[k]
                       IN  /\ IsDict(summary)
                           /\ Item(summary, "id") = Item(player, "player_id")
                           /\ Item(summary, "name") = Item(player, "name")
                           /\ Item(summary, "team") = Item(player, "team")
                           /\ Item(summary, "position") = Item(player, "position")
                           /\ Item(summary, "rank") = Item(player, "rank")
                 /\ \A k \in 1..Len(r_out.items), j \in 26..n :
                       Item(r_out.items[k], "id") # Item(r_in.items[j], "player_id")

\* C12 witness: a list of more than 25 records was summarized to its first 25.
C12_Witness ==
    /\ r_pc = "done" /\ IsList(r_in) /\ Len(r_in.items) > 25
    /\ IsList(r_out) /\ Len(r_out.items) = 25
    /\ Item(r_out.items[25], "id") = PyInt(25)

-----------------------------------------------------------------------------
(***************************************************************************)
(* The round trip to the Answer Generator in detail (lines 111-137,        *)
(* specification SpecGen): what client.post, raise_for_status,             *)
(* response.json() and result['choices'][0]['message']['content'] make of  *)
(* each answer of the upstream.                                            *)
(***************************************************************************)
\* v[0]
PyIndex0(v) ==
    IF IsExc(v) THEN v
    ELSE IF IsList(v) THEN (IF Truthy(v) THEN v.items[1]
                            ELSE Raised("IndexError", <<"list index out of range">>))
    ELSE IF IsStr(v) THEN (IF Truthy(v) THEN Chars(v)[1]
                           ELSE Raised("IndexError", <<"string index out of range">>))
    ELSE IF IsDict(v) THEN Raised("KeyError", <<"0">>)
    ELSE TypeError(v, "is not subscriptable")

\* A chat-completions body that carries the answer text.
Completion(text) ==
    PyDict(<<<<"id", PyStr("x")>>,
             <<"choices", PyList(<<PyDict(<<<<"index", PyInt(0)>>,
                                           <<"message", PyDict(<<<<"role", PyStr("assistant")>>,
                                                                  <<"content", PyText(text)>>>>)>>>>)>>)>>>>)

\* JSON bodies of a 2xx answer from which no answer text can be read.
MalformedBodies ==
    {PyNone, EmptyList, EmptyDict, PyStr("oops"), PyInt(42),
     PyDict(<<<<"error", PyDict(<<<<"message", PyStr("oops")>>>>)>>>>),
     PyDict(<<<<"choices", EmptyList>>>>),
     PyDict(<<<<"choices", PyNone>>>>),
     PyDict(<<<<"choices", PyStr("oops")>>>>),
     PyDict(<<<<"choices", EmptyDict>>>>),
     PyDict(<<<<"choices", PyList(<<EmptyDict>>)>>>>),
     PyDict(<<<<"choices", PyList(<<PyNone>>)>>>>),
     PyDict(<<<<"choices", PyList(<<PyDict(<<<<"message", EmptyDict>>>>)>>)>>>>),
     PyDict(<<<<"choices", PyList(<<PyDict(<<<<"message", PyStr("oops")>>>>)>>)>>>>),
     PyDict(<<<<"choices", PyList(<<PyDict(<<<<"message", PyNone>>>>)>>)>>>>),
     PyDict(<<<<"choices", PyList(<<PyDict(<<<<"text", PyStr("oops")>>>>)>>)>>>>)}

\* What the upstream does with the POST.
GenResponses ==
    {Upstream_ok(Completion(r)) : r \in Responses}
    \cup {Upstream_ok(b) : b \in MalformedBodies}
    \cup {Upstream_status(c) : c \in {400, 401, 413, 429, 500, 503}}
    \cup {Upstream_timeout, Upstream_transport, Upstream_badjson}

\* Mutant of post_outcome: every 2xx answer is taken to carry the answer text.
post_outcome_trusting(resp) ==
    IF resp.kind = "ok" THEN [kind |-> "ok", text |-> <<"r1">>]
    ELSE IF resp.kind = "status" THEN [kind |-> "status", code |-> resp.code]
    ELSE [kind |-> resp.kind]

\* Lines 113-126: the outcome of the round trip.  raise_for_status raises
\* HTTPStatusError for a 4xx or 5xx answer; a body that is not JSON, or from which
\* line 126 cannot read the content, raises inside the try.
post_outcome(resp) ==
    CASE resp.kind = "status" -> [kind |-> "status", code |-> resp.code]
      [] resp.kind = "badjson" -> [kind |-> "malformed"]
      [] resp.kind = "ok" ->
            LET llm_response ==
                    PyItem(PyItem(PyIndex0(PyItem(resp.data, "choices")), "message"),
                           "content")
            IN  IF IsExc(llm_response) THEN [kind |-> "malformed"]
                ELSE [kind |-> "ok", text |-> llm_response.text]
      [] OTHER -> [kind |-> resp.kind]

\* Lines 111-137 for one answer of the upstream.
FinishResponse(p, resp) == Finish(p, post_outcome(resp))

GenNext ==
    \/ \E p \in Callers, a \in CacheInputs : Start(p, a[1], a[2])
    \/ \E p \in Callers, resp \in GenResponses : FinishResponse(p, resp)
    \/ \E p \in Callers : Return(p)

\* The answer carries a text where line 126 looks for it.
CarriesAnswer(resp) ==
    /\ resp.kind = "ok"
    /\ IsDict(resp.data) /\ Has(resp.data, "choices")
    /\ LET choices == Item(resp.data, "choices")
       IN  /\ IsList(choices) /\ Len(choices.items) > 0
           /\ IsDict(choices.items[1]) /\ Has(choices.items[1], "message")
           /\ IsDict(Item(choices.items[1], "message"))
           /\ Has(Item(choices.items[1], "message"), "content")

\* C19: every failure of the generator call (a 4xx or 5xx status, a timeout, a
\* transport error, a body that is not JSON or does not carry the answer) ends the
\* call with a returned text: exactly the rate-limit text for a 429, and a text
\* that starts with "Sorry, I couldn't generate a response: " otherwise.
C19_GeneratorFailuresBecomeText ==
    [][\A p \in Callers, resp \in GenResponses :
          (FinishResponse(p, resp) /\ ~CarriesAnswer(resp)) =>
              /\ call'[p].pc = "done"
              /\ IF resp.kind = "status" /\ resp.code = 429
                 THEN call'[p].ret = RATE_LIMIT_TEXT
                 ELSE /\ Len(call'[p].ret) >= 1
                      /\ call'[p].ret[1] = SORRY_PREFIX]_vars

\* C19 witness: one caller got the rate-limit text and the other an apology, both
\* after calling the generator, and nothing was cached.
C19_Witness ==
    \E p, q \in Callers :
        /\ call[p].pc = "done" /\ call[p].genCalled /\ call[p].ret = RATE_LIMIT_TEXT
        /\ call[q].pc = "done" /\ call[q].genCalled
        /\ call[q].ret = <<SORRY_PREFIX, "malformed">>
        /\ \A k \in CacheKeys : llm_cache[k] = NoEntry

-----------------------------------------------------------------------------
(***************************************************************************)
(* The generic fallback reducer, and contexts that carry a key the         *)
(* dispatcher does not know (specification SpecFallback).                  *)
(***************************************************************************)
\* f"{key}_count" and f"{key}_contains", for the keys of the payloads.
KeyWithSuffix(key, suffix) == key \o suffix

\* Lines 671-677: what one of the first ten keys adds to the summary.
generic_key_entries(data, key) ==
    LET value == Item(data, key)
    IN  IF ~IsList(value) THEN <<>>
        ELSE <<<<KeyWithSuffix(key, "_count"), PyInt(Len(value.items))>>>>
             \o (IF Truthy(value) /\ IsDict(value.items[1])
                 THEN <<<<KeyWithSuffix(key, "_contains"),
                          PyList([i \in 1..Min(5, Len(value.items[1].kv)) |->
                                     PyStr(value.items[1].kv[i][1])])>>>>
                 ELSE <<>>)

RECURSIVE generic_entries(_, _)
generic_entries(data, keys) ==
    IF keys = <<>> THEN <<>>
    ELSE generic_key_entries(data, Head(keys)) \o generic_entries(data, Tail(keys))

\* Mutant of _create_generic_summary: every key is listed, not the first ten.
_create_generic_summary_all_keys(data) ==
    LET summary == <<<<"data_summary", PyStr("NFL data available")>>>>
    IN  IF IsDict(data)
        THEN PyDict(summary
                    \o <<<<"available_data",
                           PyList([i \in 1..Len(Keys(data)) |-> PyStr(Keys(data)[i])])>>>>
                    \o generic_entries(data, Keys(data)))
        ELSE PyDict(summary)

\* Lines 661-679.
_create_generic_summary(data) ==
    LET summary == <<<<"data_summary", PyStr("NFL data available")>>>>
    IN  IF IsDict(data)
        THEN LET keys == Take(Keys(data), 10)
             IN  PyDict(summary
                        \o <<<<"available_data", PyList([i \in 1..Len(keys) |-> PyStr(keys[i])])>>>>
                        \o generic_entries(data, keys))
        ELSE PyDict(summary)

\* Keys that no branch of lines 151-273 reads.
UnknownKeys == {"playoff_projections", "original_query", "custom"}

\* Contexts with one unknown key, alone or after a known category.
FallbackContexts ==
    {PyDict(head \o known \o <<<<k, v>>>>) :
        head \in {<<>>, ContextHead},
        known \in {<<>>, <<<<"news", FlatList>>>>},
        k \in UnknownKeys, v \in CategoryValues}

FallbackInit ==
    /\ s_in \in FallbackContexts
    /\ s_pc = "ready"
    /\ s_out = PyNone

\* C15 as stated: every key of the input that is neither a recognized category nor
\* query_type or metadata appears in the output with the generic summary of its
\* value.
C15_UnknownKeysGetGenericSummary ==
    s_pc = "done" =>
        \A i \in 1..Len(s_in.kv) :
            LET key == s_in.kv[i][1]
            IN  key \notin CategoryKeys \cup {"query_type", "metadata"} =>
                    /\ IsDict(s_out)
                    /\ Has(s_out, key)
                    /\ Item(s_out, key) = _create_generic_summary(s_in.kv[i][2])

-----------------------------------------------------------------------------
(***************************************************************************)
(* The generic fallback reducer applied on its own (specification          *)
(* SpecGeneric).                                                           *)
(***************************************************************************)
GENERIC_KEYS == 10      \* line 668: list(data.keys())[:10]
GENERIC_FIELDS == 5     \* line 676: list(data[key][0].keys())[:5]

\* Bounds of the inputs.
MaxKeys == 12      \* top-level keys of an input
MaxFields == 7     \* fields of a list's first element
MaxItems == 12     \* elements of a list

\* A record of m fields f1 .. fm.
Fields(m) == PyDict([i \in 1..m |-> <<"f" \o ToString(i), PyInt(i)>>])

\* The values under a top-level key: lists whose first element is a record, the
\* empty list, lists whose first element is no record, and values that are no list.
GenericLists ==
    {PyList([i \in 1..n |-> Fields(m)]) : n \in {1, 2, MaxItems}, m \in {0, 3, 5, 6, MaxFields}}
    \cup {PyList(<<>>), PyList(<<PyInt(1), Fields(2)>>), PyList(<<PyStr("a"), PyStr("b")>>),
          PyList(<<PyNone>>), PyList(<<PyList(<<Fields(2)>>)>>)}
GenericScalars == {PyNone, PyInt(0), PyStr("a"), Fields(2), PyDict(<<>>)}
GenericValues == GenericLists \cup GenericScalars

\* The value under the i-th key when the values are mixed.
MixedValue(i) ==
    CASE i % 4 = 0 -> PyList([j \in 1..i |-> Fields(i % (MaxFields + 1))])
      [] i % 4 = 1 -> PyStr("a")
      [] i % 4 = 2 -> PyList(<<>>)
      [] i % 4 = 3 -> PyList([j \in 1..2 |-> Fields(MaxFields)])

\* Objects of 0 .. MaxKeys keys k1, k2, ..., all with one value or with mixed
\* values, and inputs that are no object.
GenericInputs ==
    {PyDict([i \in 1..n |-> <<"k" \o ToString(i), v>>]) : n \in 0..MaxKeys, v \in GenericValues}
    \cup {PyDict([i \in 1..n |-> <<"k" \o ToString(i), MixedValue(i)>>]) : n \in 1..MaxKeys}
    \cup {PyNone, PyInt(3), PyStr("a"), PyList(<<>>), PyList(<<Fields(2)>>)}

GenericInit ==
    /\ s_in \in GenericInputs
    /\ s_pc = "ready"
    /\ s_out = PyNone

\* One call of _create_generic_summary.
Generic ==
    /\ s_pc = "ready"
    /\ s_out' = _create_generic_summary(s_in)
    /\ s_pc' = "done"
    /\ UNCHANGED s_in
    /\ UNCHANGED notSumm

\* The keys among the first ten of an object whose value is a list.
ListKeys(data) ==
    {i \in 1..Min(GENERIC_KEYS, Len(data.kv)) : IsList(data.kv[i][2])}

\* C24: for an input object the generic summary lists at most the first 10
\* top-level keys, and for each of those whose value is a list it records the
\* list's length and at most 5 field names of the first element (when that is a
\* record), and nothing else: every value of the summary is a str, an int or a
\* list of str, never a raw element.  For an input that is no object the summary
\* is the fixed 'data_summary' entry alone.
C24_GenericSummaryBounded ==
    s_pc = "done" =>
        /\ IsDict(s_out)
        /\ s_out.kv[1] = <<"data_summary", PyStr("NFL data available")>>
        /\ ~IsDict(s_in) => Len(s_out.kv) = 1
        /\ IsDict(s_in) =>
              LET n == Min(GENERIC_KEYS, Len(s_in.kv))
                  listed == Item(s_out, "available_data")
              IN  /\ Has(s_out, "available_data")
                  /\ IsList(listed) /\ Len(listed.items) = n
                  /\ \A i \in 1..n : listed.items[i] = PyStr(s_in.kv[i][1])
                  /\ Len(s_out.kv) <= 2 + 2 * GENERIC_KEYS
                  /\ \A j \in 3..Len(s_out.kv) :
                        \E i \in ListKeys(s_in) :
                            LET key == s_in.kv[i][1]
                                value == s_in.kv[i][2]
                                entry == s_out.kv[j]
                            IN  \/ entry = <<key \o "_count", PyInt(Len(value.items))>>
                                \/ /\ entry[1] = key \o "_contains"
                                   /\ value.items # <<>> /\ IsDict(value.items[1])
                                   /\ IsList(entry[2])
                                   /\ Len(entry[2].items)
                                        = Min(GENERIC_FIELDS, Len(value.items[1].kv))
                                   /\ \A f \in 1..Len(entry[2].items) :
                                         entry[2].items[f] = PyStr(value.items[1].kv[f][1])
                  /\ \A i \in ListKeys(s_in) : Has(s_out, s_in.kv[i][1] \o "_count")
        /\ \A j \in 1..Len(s_out.kv) :
              LET v == s_out.kv[j][2]
              IN  \/ IsStr(v) \/ IsInt(v)
                  \/ IsList(v) /\ \A i \in 1..Len(v.items) : IsStr(v.items[i])

\* C24 witness: an object of more than 10 keys, with a list under one of the
\* first ten whose first element has more than 5 fields and a list under a key
\* past the tenth, was summarized; 5 field names were recorded.
C24_Witness ==
    /\ s_pc = "done" /\ IsDict(s_in) /\ Len(s_in.kv) > GENERIC_KEYS
    /\ IsList(s_in.kv[GENERIC_KEYS + 1][2])
    /\ \E i \in ListKeys(s_in) :
          /\ Len(s_in.kv[i][2].items) > 1
          /\ IsDict(s_in.kv[i][2].items[1])
          /\ Len(s_in.kv[i][2].items[1].kv) > GENERIC_FIELDS
          /\ Len(Item(s_out, s_in.kv[i][1] \o "_contains").items) = GENERIC_FIELDS

-----------------------------------------------------------------------------
(***************************************************************************)
(* The rest-of-season projections reducer applied to position-keyed        *)
(* projections (specification SpecRos).                                    *)
(***************************************************************************)
ROS_QB_CAP == 30        \* line 866
ROS_CAP == 20           \* line 866

MaxProj == 32     \* elements in one position's list

\* The i-th element of a position's list: a record with all fields, one with a
\* name only, one whose proj_pts is null, the empty record, or, in a mixed list,
\* these in turn with elements that are no record between them.
RosKinds == {"full", "bare", "null", "empty", "mixed"}
RosElement(i, kind) ==
    LET name == <<"name", PyText(<<"p", ToString(i)>>)>>
        full == PyDict(<<name, <<"team", PyStr("DET")>>, <<"position", PyStr("QB")>>,
                         <<"proj_pts", PyInt(400 - i)>>, <<"passing_yards", PyInt(i)>>>>)
        bare == PyDict(<<name>>)
        null == PyDict(<<name, <<"proj_pts", PyNone>>>>)
    IN  CASE kind = "full" -> full
          [] kind = "bare" -> bare
          [] kind = "null" -> null
          [] kind = "empty" -> PyDict(<<>>)
          [] kind = "mixed" ->
                CASE i % 5 = 0 -> PyInt(i)
                  [] i % 5 = 1 -> full
                  [] i % 5 = 2 -> bare
                  [] i % 5 = 3 -> PyStr("a")
                  [] i % 5 = 4 -> null

RosList(n, kind) == PyList([i \in 1..n |-> RosElement(i, kind)])

RosObject(projections) ==
    PyDict(<<<<"season", PyInt(2025)>>, <<"week", PyInt(3)>>, <<"projections", projections>>>>)

\* Objects with one position, with two, and with a position whose value is no list.
RosInputs ==
    {RosObject(PyDict(<<<<pos, RosList(n, kind)>>>>)) :
        pos \in {"QB", "RB"}, n \in 0..MaxProj, kind \in RosKinds}
    \cup {RosObject(PyDict(<<<<"RB", RosList(n, kind)>>, <<"QB", RosList(n, kind)>>>>)) :
            n \in {0, 1, ROS_CAP + 1, MaxProj}, kind \in RosKinds}
    \cup {RosObject(PyDict(<<<<"QB", v>>, <<"WR", RosList(MaxProj, "full")>>>>)) :
            v \in {PyNone, PyStr("a"), PyDict(<<>>), RosElement(1, "full")}}

RosInit ==
    /\ r_in \in RosInputs
    /\ r_pc = "ready"
    /\ r_out = PyNone

\* One call of _summarize_ros_projections.
Ros ==
    /\ r_pc = "ready"
    /\ r_out' = _summarize_ros_projections(r_in)
    /\ r_pc' = "done"
    /\ UNCHANGED r_in
    /\ UNCHANGED notRank

\* C25: given an object with a position-keyed 'projections' mapping, the reducer
\* returns for each position with a non-empty list the records among the list's
\* first min(n, cap) elements, in received order, with cap = 30 for QB and 20 for
\* every other position (min(n, cap) records when every element is a record), and
\* each output record carries the input's proj_pts value as 'projected_points'
\* exactly when the input record has that field.
C25_RosFirstCapPerPosition ==
    r_pc = "done" =>
        /\ IsDict(r_out)
        /\ \A k \in 1..Len(Item(r_in, "projections").kv) :
              LET position == Item(r_in, "projections").kv[k][1]
                  players == Item(r_in, "projections").kv[k][2]
              IN  (IsList(players) /\ players.items # <<>>) =>
                    LET cap == IF position = "QB" THEN ROS_QB_CAP ELSE ROS_CAP
                        m == Min(Len(players.items), cap)
                        records == SelectSeq(SubSeq(players.items, 1, m), IsDict)
                        out == Item(r_out, position)
                    IN  /\ Has(r_out, position) /\ IsList(out)
                        /\ Len(out.items) = Len(records)
                        /\ (\A i \in 1..m : IsDict(players.items[i])) => Len(out.items) = m
                        /\ \A j \in 1..Len(records) :
                              /\ IsDict(out.items[j])
                              /\ Item(out.items[j], "name") = Get(records[j], "name", EmptyStr)
                              /\ Has(out.items[j], "projected_points")
                                    <=> Has(records[j], "proj_pts")
                              /\ Has(records[j], "proj_pts") =>
                                    Item(out.items[j], "projected_points")
                                        = Item(records[j], "proj_pts")

\* C25 witness: lists longer than either cap under QB and RB were reduced to 30
\* and 20 records, the last of them carrying the projected points of the 30th and
\* of the 20th input record.
C25_Witness ==
    /\ r_pc = "done" /\ IsDict(r_in) /\ Has(r_in, "projections")
    /\ Get(Item(r_in, "projections"), "QB", PyNone) = RosList(MaxProj, "full")
    /\ Get(Item(r_in, "projections"), "RB", PyNone) = RosList(MaxProj, "full")
    /\ Len(Item(r_out, "QB").items) = ROS_QB_CAP
    /\ Len(Item(r_out, "RB").items) = ROS_CAP
    /\ Item(Item(r_out, "QB").items[ROS_QB_CAP], "projected_points") = PyInt(400 - ROS_QB_CAP)
    /\ Item(Item(r_out, "RB").items[ROS_CAP], "projected_points") = PyInt(400 - ROS_CAP)

-----------------------------------------------------------------------------
(***************************************************************************)
(* Records that lack fields, in the flat-list ranking, schedule, games and *)
(* injury reducers (specification SpecDegrade).                            *)
(***************************************************************************)
DegradeCategories == {"draft_rankings", "schedule", "relevant_games", "injuries"}

\* The fields a reducer reads from a record: <<field of the record, field of the
\* output record, default of the .get()>>, in the order of the output record.
\* Lines 705-712, 529-540, 441-451 and 568-569.
RecordFields(category) ==
    CASE category = "draft_rankings" ->
            <<<<"player_id", "id", EmptyStr>>, <<"name", "name", EmptyStr>>,
              <<"team", "team", EmptyStr>>, <<"position", "position", EmptyStr>>,
              <<"rank", "rank", PyInt(0)>>, <<"bye_week", "bye_week", EmptyStr>>>>
      [] category = "schedule" ->
            <<<<"gameId", "gameId", EmptyStr>>, <<"season", "season", EmptyStr>>,
              <<"week", "week", EmptyStr>>, <<"game_date", "game_date", EmptyStr>>,
              <<"home_team", "home_team", EmptyStr>>, <<"away_team", "away_team", EmptyStr>>,
              <<"home_score", "home_score", PyNone>>, <<"away_score", "away_score", PyNone>>,
              <<"tv_station", "tv_station", EmptyStr>>, <<"winner", "winner", PyNone>>>>
      [] category = "relevant_games" ->
            <<<<"gameId", "gameId", EmptyStr>>, <<"week", "week", EmptyStr>>,
              <<"game_date", "game_date", EmptyStr>>,
              <<"home_team", "home_team", EmptyStr>>, <<"away_team", "away_team", EmptyStr>>,
              <<"tv_station", "tv_station", EmptyStr>>,
              <<"home_score", "home_score", PyInt(0)>>, <<"away_score", "away_score", PyInt(0)>>,
              <<"status", "status", PyStr("Scheduled")>>>>
      [] category = "injuries" ->
            <<<<"name", "name", EmptyStr>>, <<"alias", "alias", EmptyStr>>>>

\* The fields an injured player's record is read for (lines 577-580).
PLAYER_FIELDS == <<"name", "position", "status", "injury">>

\* The i-th record with every field: field j holds 10 * i + j.  A team of the
\* injury report also has two players, the second an empty record.
FullRecord(category, i) ==
    LET fields == RecordFields(category)
    IN  PyDict([j \in 1..Len(fields) |-> <<fields[j][1], PyInt(10 * i + j)>>]
               \o (IF category = "injuries"
                   THEN <<<<"players",
                            PyList(<<PyDict([j \in 1..Len(PLAYER_FIELDS) |->
                                               <<PLAYER_FIELDS[j], PyInt(j)>>]),
                                     PyDict(<<>>)>>)>>>>
                   ELSE <<>>))

\* The record without the fields of the set missing.
Without(record, missing) ==
    PyDict(SelectSeq(record.kv, LAMBDA pr : pr[1] \notin missing))

\* The payloads: three records, the second lacking some or all of its fields; for
\* the schedule and the injury report also inside an object.
DegradePayloads(category) ==
    LET full == FullRecord(category, 2)
        lists == {PyList(<<FullRecord(category, 1), Without(full, missing),
                           FullRecord(category, 3)>>) :
                     missing \in SUBSET {full.kv[j][1] : j \in 1..Len(full.kv)}}
    IN  lists
        \cup (IF category = "schedule" THEN {PyDict(<<<<"games", l>>>>) : l \in lists}
              ELSE IF category = "injuries" THEN {PyDict(<<<<"teams", l>>>>) : l \in lists}
              ELSE {})

DegradeContexts ==
    UNION {{PyDict(<<<<category, payload>>>>) : payload \in DegradePayloads(category)} :
              category \in DegradeCategories}

DegradeInit ==
    /\ s_in \in DegradeContexts
    /\ s_pc = "ready"
    /\ s_out = PyNone

\* The category of the context, the records of its payload, and the records of
\* its summary (none when the summary has not the shape the reducer builds).
DegradeCategory == s_in.kv[1][1]
RecordsIn ==
    LET payload == s_in.kv[1][2]
    IN  IF IsList(payload) THEN payload.items ELSE payload.kv[1][2].items
RecordsOut ==
    LET summary == Get(s_out, DegradeCategory, PyNone)
        inner == IF DegradeCategory = "schedule" THEN Get(summary, "games", PyNone)
                 ELSE IF DegradeCategory = "injuries"
                 THEN Get(summary, "teams_with_injuries", PyNone)
                 ELSE PyNone
    IN  IF DegradeCategory \in {"schedule", "injuries"}
        THEN (IF IsDict(summary) /\ IsList(inner) THEN inner.items ELSE <<>>)
        ELSE (IF IsList(summary) THEN summary.items ELSE <<>>)

\* The output record of a record: each field the record has, and the default of
\* each field it lacks; for a team of the injury report also its players.
ExpectedRecord(category, record) ==
    LET fields == RecordFields(category)
        player(pl) == PyDict([j \in 1..Len(PLAYER_FIELDS) |->
                                <<PLAYER_FIELDS[j], Get(pl, PLAYER_FIELDS[j], EmptyStr)>>])
        players == Get(record, "players", EmptyList).items
    IN  PyDict([j \in 1..Len(fields) |->
                  <<fields[j][2], Get(record, fields[j][1], fields[j][3])>>]
               \o (IF category = "injuries"
                   THEN <<<<"injuries", PyList([i \in 1..Len(players) |-> player(players[i])])>>>>
                   ELSE <<>>))

\* C26 as stated: a dict record that lacks any or all expected fields yields an
\* output record with every such field set to an empty or zero value, the
\* reduction does not fail, and the other records are summarized normally.
C26_MissingFieldsGetEmptyDefaults ==
    s_pc = "done" =>
        /\ Len(RecordsOut) = Len(RecordsIn)
        /\ \A i \in 1..Len(RecordsOut) :
              LET fields == RecordFields(DegradeCategory)
              IN  \A j \in 1..Len(fields) :
                      IF Has(RecordsIn[i], fields[j][1])
                      THEN Item(RecordsOut[i], fields[j][2]) = Item(RecordsIn[i], fields[j][1])
                      ELSE ~Truthy(Item(RecordsOut[i], fields[j][2]))

\* C26 (amended): a dict record that lacks any or all expected fields yields an
\* output record with every such field set to the default of its .get(), which is
\* an empty or zero value ('', 0, None, []) for every field but the 'status' of
\* the games reducer, whose default is 'Scheduled'; the reduction does not fail,
\* and the other records are summarized normally.
C26_MissingFieldsGetTheirDefaults ==
    s_pc = "done" =>
        /\ Len(RecordsOut) = Len(RecordsIn)
        /\ \A i \in 1..Len(RecordsOut) :
              RecordsOut[i] = ExpectedRecord(DegradeCategory, RecordsIn[i])
        /\ \A category \in DegradeCategories :
              \A j \in 1..Len(RecordFields(category)) :
                  LET field == RecordFields(category)[j]
                  IN  IF category = "relevant_games" /\ field[2] = "status"
                      THEN field[3] = PyStr("Scheduled")
                      ELSE ~Truthy(field[3])

\* C26 witness: a payload of games whose second record is empty was reduced to
\* three records, the second with its defaults and 'Scheduled' as status, the
\* first and third with their own values.
C26_Witness ==
    /\ s_pc = "done" /\ DegradeCategory = "relevant_games"
    /\ RecordsIn[2] = PyDict(<<>>)
    /\ Len(RecordsOut) = 3
    /\ Item(RecordsOut[2], "status") = PyStr("Scheduled")
    /\ Item(RecordsOut[2], "home_score") = PyInt(0)
    /\ Item(RecordsOut[2], "week") = EmptyStr
    /\ Item(RecordsOut[1], "status") = PyInt(19)
    /\ Item(RecordsOut[3], "status") = PyInt(39)

-----------------------------------------------------------------------------
(***************************************************************************)
(* Payloads larger than any cap of the reducers (specification SpecLarge). *)
(***************************************************************************)
\* The largest bound of a slice in the reducers (lines 787, 793 and 866).
LARGEST_CAP == 30

MaxPayload == 31     \* records in a large payload

\* A large payload: a flat list of records, or an object that holds the list under
\* one of the keys the reducers read.
LargePayloads ==
    {PyList(Recs(MaxPayload))}
    \cup {PyDict(<<<<k, PyList(Recs(MaxPayload))>>>>) :
            k \in {"weeks", "conferences", "games", "teams", "players", "data"}}

LargeContexts ==
    {PyDict(<<<<DISPATCH[i][1], v>>>>) : i \in 1..Len(DISPATCH), v \in LargePayloads}

LargeInit ==
    /\ s_in \in LargeContexts
    /\ s_pc = "ready"
    /\ s_out = PyNone

RECURSIVE LongestIn(_)
\* The length of the longest list or dict found anywhere inside a value.
LongestIn(v) ==
    LET Max(S) == IF S = {} THEN 0 ELSE CHOOSE x \in S : \A y \in S : y <= x
    IN  CASE IsList(v) -> Max({Len(v.items)} \cup {LongestIn(v.items[i]) : i \in 1..Len(v.items)})
          [] IsDict(v) -> Max({Len(v.kv)} \cup {LongestIn(v.kv[i][2]) : i \in 1..Len(v.kv)})
          [] OTHER -> 0

\* C16 as stated: whatever the size of the raw payload, no category's summary
\* holds a sequence or mapping of more elements than the reducers' largest cap:
\* every reducer caps its records and none copies an unbounded input through.
C16_EveryCategorySummaryCapped ==
    (s_pc = "done" /\ IsDict(s_out)) =>
        \A i \in 1..Len(DISPATCH) :
            Has(s_out, DISPATCH[i][2]) => LongestIn(Item(s_out, DISPATCH[i][2])) <= LARGEST_CAP

-----------------------------------------------------------------------------
(***************************************************************************)
(* The context message of generate_response (lines 103-108): the summary   *)
(* is serialized with json.dumps(summarized_data, indent=2) and cut at     *)
(* 25,000 characters.  Here a text is a string, with Len, SubSeq and \o    *)
(* its length, slice and concatenation.                                    *)
(***************************************************************************)
\* The string of a str value: its own, or the concatenation of its pieces.
TextOf(v) == IF "s" \in DOMAIN v THEN v.s ELSE Concat(v.text)

\* n copies of a string.
RECURSIVE Repeat(_, _)
Repeat(s, n) ==
    IF n = 0 THEN ""
    ELSE IF n % 2 = 0 THEN LET half == Repeat(s, n \div 2) IN half \o half
    ELSE s \o Repeat(s, n - 1)

\* json's escaping of a str: a backslash before each double quote and backslash
\* (the texts of the model hold no control or non-ASCII characters).
RECURSIVE json_escape(_)
json_escape(s) ==
    IF Len(s) = 0 THEN ""
    ELSE IF Len(s) = 1 THEN (IF s \in {"\"", "\\"} THEN "\\" \o s ELSE s)
    ELSE LET h == Len(s) \div 2
         IN  json_escape(SubSeq(s, 1, h)) \o json_escape(SubSeq(s, h + 1, Len(s)))

\* level * 2 spaces.
Indent(level) == Repeat(" ", 2 * level)

RECURSIVE json_dumps_at(_, _)
RECURSIVE json_join(_, _, _)
\* json.dumps(v, indent=2), for v nested at the given level.
json_dumps_at(v, level) ==
    CASE IsNone(v) -> "null"
      [] IsInt(v)  -> ToString(v.n)
      [] IsStr(v)  -> "\"" \o json_escape(TextOf(v)) \o "\""
      [] IsList(v) -> IF v.items = <<>> THEN "[]"
                      ELSE "[\n" \o json_join(v.items, FALSE, level + 1)
                           \o "\n" \o Indent(level) \o "]"
      [] IsDict(v) -> IF v.kv = <<>> THEN "{}"
                      ELSE "{\n" \o json_join(v.kv, TRUE, level + 1)
                           \o "\n" \o Indent(level) \o "}"
\* The items of a list, or the "key": value pairs of a dict, one per line.
json_join(q, pairs, level) ==
    LET one == IF pairs
               THEN "\"" \o json_escape(Head(q)[1]) \o "\": "
                    \o json_dumps_at(Head(q)[2], level)
               ELSE json_dumps_at(Head(q), level)
    IN  Indent(level) \o one
        \o (IF Len(q) > 1 THEN ",\n" \o json_join(Tail(q), pairs, level) ELSE "")

\* Line 104.
json_dumps(v) == json_dumps_at(v, 0)

\* Lines 105-106.
CONTEXT_LIMIT == 25000
TRUNCATION_MARKER == "...[additional data truncated for size]"

\* Mutant of truncate_context: nothing is cut and no marker is appended.
truncate_context_never(text) == text

\* Mutant of truncate_context: a text of exactly 25,000 characters is cut as well.
truncate_context_at_limit(text) ==
    IF Len(text) >= CONTEXT_LIMIT
    THEN SubSeq(text, 1, CONTEXT_LIMIT) \o TRUNCATION_MARKER
    ELSE text

\* Lines 105-106: context_str[:25000] + marker when len(context_str) > 25000.
truncate_context(text) ==
    IF Len(text) > CONTEXT_LIMIT
    THEN SubSeq(text, 1, CONTEXT_LIMIT) \o TRUNCATION_MARKER
    ELSE text

\* Bounds of the contexts that are serialized.
MaxOver == 3      \* characters by which a serialized summary passes the limit
MaxNote == 30     \* characters of a short note

\* A note of n characters: letters, with a double quote and a backslash as its
\* second and third characters when it is quoted and has as many.
Note(n, quoted) ==
    LET plain == Repeat("bcdefga", n \div 7) \o SubSeq("bcdefga", 1, n % 7)
    IN  PyStr(IF quoted /\ n >= 3 THEN SubSeq(plain, 1, 1) \o "\"\\" \o SubSeq(plain, 4, n)
              ELSE IF quoted /\ n = 2 THEN SubSeq(plain, 1, 1) \o "\""
              ELSE plain)

\* A context whose metadata carries the note (metadata passes through the
\* summarizer as it is, lines 145-146), with or without a ranking list.
NoteContext(note, rankings) ==
    PyDict(<<<<"query_type", PyStr("t")>>,
             <<"metadata", PyDict(<<<<"note", note>>>>)>>>>
           \o (IF rankings THEN <<<<"draft_rankings", PyList(Recs(2))>>>> ELSE <<>>))

\* The length of the serialized summary of such a context.
SerializedLen(note, rankings) ==
    Len(json_dumps(_summarize_context_data(NoteContext(note, rankings))))

\* Notes that bring the serialized summary to CONTEXT_LIMIT + d characters.
NearLimitNote(d, quoted, rankings) ==
    Note(CONTEXT_LIMIT + d - SerializedLen(Note(IF quoted THEN 3 ELSE 0, quoted), rankings)
         + (IF quoted THEN 3 ELSE 0), quoted)

CtxInputs ==
    {NoteContext(Note(n, q), r) : n \in 0..MaxNote, q \in BOOLEAN, r \in BOOLEAN}
    \cup {NoteContext(NearLimitNote(d, q, r), r) :
            d \in (0 - MaxOver)..MaxOver, q \in BOOLEAN, r \in BOOLEAN}
    \cup {NoteContext(NearLimitNote(CONTEXT_LIMIT, FALSE, FALSE), FALSE)}

CtxInit ==
    /\ s_in \in CtxInputs
    /\ s_pc = "ready"
    /\ s_out = PyNone
    /\ context_str = ""

\* Lines 104-108: the summary is serialized, cut and appended to the messages.
Serialize ==
    /\ s_pc = "done"
    /\ ~IsExc(s_out)
    /\ context_str' = truncate_context(json_dumps(s_out))
    /\ s_pc' = "sent"
    /\ UNCHANGED <<s_in, s_out>>
    /\ UNCHANGED <<cacheVars, batchVars, fetchVars, rankVars>>

(***************************************************************************)
(* Claims about the context message (specification SpecCtx).               *)
(***************************************************************************)
\* C13 as stated: the serialized context sent to the generator never exceeds
\* 25,000 characters.
C13_NeverExceedsCeiling ==
    s_pc = "sent" => Len(context_str) <= CONTEXT_LIMIT

\* C13 (amended): the context sent never exceeds 25,000 characters plus the length
\* of the truncation marker (39), and it exceeds 25,000 only when the serialized
\* summary did.
C13_NeverExceedsCeilingPlusMarker ==
    s_pc = "sent" =>
        /\ Len(context_str) <= CONTEXT_LIMIT + Len(TRUNCATION_MARKER)
        /\ Len(TRUNCATION_MARKER) = 39
        /\ Len(json_dumps(s_out)) <= CONTEXT_LIMIT => Len(context_str) <= CONTEXT_LIMIT

\* C13 witness: a summary that serializes to twice the limit was sent as 25,039
\* characters.
C13_Witness ==
    /\ s_pc = "sent"
    /\ Len(json_dumps(s_out)) >= 2 * CONTEXT_LIMIT
    /\ Len(context_str) = CONTEXT_LIMIT + Len(TRUNCATION_MARKER)

\* C14: a serialized summary longer than 25,000 characters is sent as its first
\* 25,000 characters followed by the marker, 25,000 + 39 characters in all; one of
\* 25,000 characters or fewer is sent unchanged, with no marker.
C14_TruncationExactNeverSilent ==
    s_pc = "sent" =>
        LET dump == json_dumps(s_out)
            m == Len(TRUNCATION_MARKER)
        IN  IF Len(dump) > CONTEXT_LIMIT
            THEN /\ Len(context_str) = CONTEXT_LIMIT + m
                 /\ SubSeq(context_str, 1, CONTEXT_LIMIT) = SubSeq(dump, 1, CONTEXT_LIMIT)
                 /\ SubSeq(context_str, CONTEXT_LIMIT + 1, CONTEXT_LIMIT + m) = TRUNCATION_MARKER
            ELSE /\ context_str = dump
                 /\ Len(context_str) >= m =>
                       SubSeq(context_str, Len(context_str) - m + 1, Len(context_str))
                           # TRUNCATION_MARKER

\* C14 witness: a summary that serializes to 25,001 characters was cut to its
\* first 25,000 and the marker appended.
C14_Witness ==
    /\ s_pc = "sent"
    /\ Len(json_dumps(s_out)) = CONTEXT_LIMIT + 1
    /\ Len(context_str) = CONTEXT_LIMIT + Len(TRUNCATION_MARKER)
    /\ SubSeq(context_str, CONTEXT_LIMIT + 1, Len(context_str)) = TRUNCATION_MARKER

-----------------------------------------------------------------------------
(***************************************************************************)
(* End to end: one category is fetched, its payload is placed in the       *)
(* context under the category's key, and the context is summarized         *)
(* (specification SpecPipe).                                               *)
(***************************************************************************)
\* The context key of an endpoint: the key that lines 48-51 of LLm_service.py turn
\* back into the endpoint's name (key.replace("_", "-"), and "league" for "teams").
context_key(endpoint) ==
    LET name == Joined(ReplaceToken(RemoveSeq(RemoveSeq(endpoint, NFL_PREFIX), <<"/">>),
                                    "-", "_"))
    IN  IF name = "teams" THEN "league" ELSE name

\* The payloads fetched for a second category of the same request.
CompanionPayloads == {PyList(Recs(n)) : n \in {0, MaxRecs}}

PipeInit ==
    /\ FetchInit
    /\ s_in = PyNone
    /\ s_pc = "waiting"
    /\ s_out = PyNone

\* The fetched payload becomes the value of its category in the context, next to
\* the draft rankings when the other category is not the draft rankings itself.
\* A fetch that raised leaves no context to summarize.
Assemble(companion) ==
    /\ f_pc = "done"
    /\ s_pc = "waiting"
    /\ ~IsExc(f_result)
    /\ s_in' = PyDict(ContextHead
                      \o <<<<context_key(f_endpoint), f_result>>>>
                      \o (IF context_key(f_endpoint) = "draft_rankings" THEN <<>>
                          ELSE <<<<"draft_rankings", companion>>>>))
    /\ s_pc' = "ready"
    /\ UNCHANGED s_out
    /\ UNCHANGED notSumm

\* The upstream answers the standings request with an empty list.
EmptyStandingsFetched ==
    /\ context_key(f_endpoint) = "standings"
    /\ f_upstream = Upstream_ok(EmptyList)

\* C11 as stated: when the upstream for standings returns an empty list, the
\* 'standings' entry of the summarized context is exactly
\* {"standings": {}, "message": "No standings data available"}.
C11_PlaceholderSurvivesSummarization ==
    (s_pc = "done" /\ EmptyStandingsFetched) =>
        /\ IsDict(s_out)
        /\ Has(s_out, "standings")
        /\ Item(s_out, "standings") = NO_STANDINGS

-----------------------------------------------------------------------------
(***************************************************************************)
(* Idle values of each component, and the specifications.                  *)
(***************************************************************************)
CacheIdle ==
    /\ llm_cache = <<>> /\ clock = 0 /\ call = <<>> /\ stored = {} /\ ncalls = 0
BatchIdle ==
    /\ requests = <<>> /\ b_pc = "off" /\ tasks = <<>> /\ completed = <<>>
    /\ b_ret = PyNone
FetchIdle ==
    /\ f_layer = "" /\ f_endpoint = "" /\ f_upstream = <<>> /\ f_pc = "off"
    /\ f_result = PyNone
SummIdle == s_in = PyNone /\ s_pc = "off" /\ s_out = PyNone
RankIdle == r_in = PyNone /\ r_pc = "off" /\ r_out = PyNone
CtxIdle == context_str = ""

\* generate_response and the cache.
Init == CacheInit /\ BatchIdle /\ FetchIdle /\ SummIdle /\ RankIdle /\ CtxIdle
Next == CacheNext
Spec == Init /\ [][Next]_vars

\* generate_response on neighbouring queries and contexts.
InitKey == KeyInit /\ BatchIdle /\ FetchIdle /\ SummIdle /\ RankIdle /\ CtxIdle
NextKey == KeyNext
SpecKey == InitKey /\ [][NextKey]_vars

\* generate_response against every answer of the generator.
InitGen == CacheInit /\ BatchIdle /\ FetchIdle /\ SummIdle /\ RankIdle /\ CtxIdle
NextGen == GenNext
SpecGen == InitGen /\ [][NextGen]_vars

\* One call of batch_get.
InitBatch == BatchInit /\ CacheIdle /\ FetchIdle /\ SummIdle /\ RankIdle /\ CtxIdle
NextBatch ==
    \/ BatchCall
    \/ \E k \in 1..MaxReqs : TaskStart(k)
    \/ \E k \in 1..MaxReqs, up \in BatchUpstreams : TaskSettle(k, up)
    \/ BatchResume
SpecBatch == InitBatch /\ [][NextBatch]_vars

\* The same, with an event loop that runs every ready task and an upstream client
\* that settles every request (the client's timeout is 30 s, line 12).
FairBatch ==
    /\ SpecBatch
    /\ WF_vars(BatchCall)
    /\ \A k \in 1..MaxReqs : WF_vars(TaskStart(k))
    /\ \A k \in 1..MaxReqs : WF_vars(\E up \in BatchUpstreams : TaskSettle(k, up))
    /\ WF_vars(BatchResume)

\* One call of _summarize_context_data.
InitSumm == SummInit /\ CacheIdle /\ BatchIdle /\ FetchIdle /\ RankIdle /\ CtxIdle
NextSumm == Summarize
SpecSumm == InitSumm /\ [][NextSumm]_vars

\* One call of _summarize_fantasy_rankings.
InitRank == RankInit /\ CacheIdle /\ BatchIdle /\ FetchIdle /\ SummIdle /\ CtxIdle
NextRank == Rank
SpecRank == InitRank /\ [][NextRank]_vars

\* One call of _get or get_data.
InitLayers == LayersInit /\ CacheIdle /\ BatchIdle /\ SummIdle /\ RankIdle /\ CtxIdle
NextLayers == Fetch
SpecLayers == InitLayers /\ [][NextLayers]_vars

\* One call of a fetch function.
InitFetch == FetchInit /\ CacheIdle /\ BatchIdle /\ SummIdle /\ RankIdle /\ CtxIdle
NextFetch == Fetch
SpecFetch == InitFetch /\ [][NextFetch]_vars

\* One call of _create_generic_summary.
InitGeneric == GenericInit /\ CacheIdle /\ BatchIdle /\ FetchIdle /\ RankIdle /\ CtxIdle
NextGeneric == Generic
SpecGeneric == InitGeneric /\ [][NextGeneric]_vars

\* One call of _summarize_context_data on a payload with a record that lacks fields.
InitDegrade == DegradeInit /\ CacheIdle /\ BatchIdle /\ FetchIdle /\ RankIdle /\ CtxIdle
NextDegrade == Summarize
SpecDegrade == InitDegrade /\ [][NextDegrade]_vars

\* One call of _summarize_ros_projections.
InitRos == RosInit /\ CacheIdle /\ BatchIdle /\ FetchIdle /\ SummIdle /\ CtxIdle
NextRos == Ros
SpecRos == InitRos /\ [][NextRos]_vars

\* One call of _summarize_context_data on a context with an unknown key.
InitFallback == FallbackInit /\ CacheIdle /\ BatchIdle /\ FetchIdle /\ RankIdle /\ CtxIdle
NextFallback == Summarize
SpecFallback == InitFallback /\ [][NextFallback]_vars

\* One call of _summarize_context_data on a large payload.
InitLarge == LargeInit /\ CacheIdle /\ BatchIdle /\ FetchIdle /\ RankIdle /\ CtxIdle
NextLarge == Summarize
SpecLarge == InitLarge /\ [][NextLarge]_vars

\* The context message of one generate_response call.
InitCtx == CtxInit /\ CacheIdle /\ BatchIdle /\ FetchIdle /\ RankIdle
NextCtx == Summarize \/ Serialize
SpecCtx == InitCtx /\ [][NextCtx]_vars

\* One call of _safe_get.
InitSafe == SafeInit /\ CacheIdle /\ BatchIdle /\ SummIdle /\ RankIdle /\ CtxIdle
NextSafe == SafeFetch
SpecSafe == InitSafe /\ [][NextSafe]_vars

\* One category fetched, placed in the context and summarized.
InitPipe == PipeInit /\ CacheIdle /\ BatchIdle /\ RankIdle /\ CtxIdle
NextPipe ==
    \/ Fetch
    \/ \E companion \in CompanionPayloads : Assemble(companion)
    \/ Summarize
SpecPipe == InitPipe /\ [][NextPipe]_vars

=============================================================================
